---- MODULE Spec2Model ----
(***************************************************************************)
(* Keycard engine of smilodon (keycard.py): entries, canonical bytes,      *)
(* signing, hashing, verification and chaining.                            *)
(*                                                                         *)
(* Text is a sequence of one-character strings.  Cryptographic values are  *)
(* symbolic terms: a signature records the key pair that made it and the   *)
(* bytes it was made over, a digest records the algorithm and the bytes.   *)
(* Canonical bytes are a sequence of CRLF-terminated lines <<name, value>>.*)
(***************************************************************************)
EXTENDS Integers, Sequences, FiniteSets, TLC

VARIABLES
    cur,      \* the entry the caller works on
    chained,  \* chaindata['entry'] of the latest call of chain, until cur is used again
    bundle,   \* the key fields of that chaindata
    parsed,   \* the entry the latest parse of cur's bytes produced
    edits,    \* number of direct writes so far
    s1,       \* how far cur is through sign(Organization), generate_hash, sign(User)
    link,     \* how far chained is through sign(Organization), prev_hash, generate_hash, sign(User)
    card,     \* Keycard.entries
    loaded,   \* the entries of the keycard the latest load of the saved card produced
    disk,     \* the file at the path the save methods are given
    keyobj,   \* the key object the caller holds
    profiles, \* ProfileManager.profiles
    active_index, \* ProfileManager.active_index
    last      \* the latest call: operation, arguments, return value

vars == <<cur, chained, bundle, parsed, edits, s1, link, card, loaded, disk, keyobj, profiles, active_index, last>>

(***************************************************************************)
(* Bounds of the model                                                     *)
(***************************************************************************)
\* number of times generate_hash may nest a digest inside a digest
MaxHashDepth == 2
\* number of direct writes (item assignment, prev_hash, set) explored in one run
MaxEdits == 1
\* entries of a keycard
MaxEntries == 3
\* longest passphrase given to check_password_complexity
MaxPassword == 13

(***************************************************************************)
(* Values                                                                  *)
(***************************************************************************)
\* a plain text value; '' is Txt(<<>>)
Txt(chars) == [t |-> "str", p |-> "", k |-> 0, s |-> chars, d |-> <<>>]

Empty == Txt(<<>>)

\* the text of an entry type, as written on the Type line
TypeVal(type) == [t |-> "str", p |-> type, k |-> 0, s |-> <<>>, d |-> <<>>]

\* 'PREFIX:base85(public key)' and 'PREFIX:base85(private key)' of key pair id
PubKey(prefix, id) == [t |-> "pub", p |-> prefix, k |-> id, s |-> <<>>, d |-> <<>>]

PrivKey(prefix, id) == [t |-> "priv", p |-> prefix, k |-> id, s |-> <<>>, d |-> <<>>]

\* 'ED25519:' + base85(signature by the signing key of pair id over data)
SigVal(id, data) == [t |-> "sig", p |-> "ED25519", k |-> id, s |-> <<>>, d |-> data]

\* '<algo>:' + base85(digest of data); hfun is the hash function that ran
DigVal(algo, hfun, data) == [t |-> "dig", p |-> algo, k |-> hfun, s |-> <<>>, d |-> data]

\* Python truthiness of a string
Truthy(v) == v # Empty

(***************************************************************************)
(* Dictionaries: functions whose DOMAIN is the set of keys present         *)
(***************************************************************************)
EmptyDict == [x \in {} |-> Empty]

Has(dict, key) == key \in DOMAIN dict

Put(dict, key, v) == [x \in (DOMAIN dict) \cup {key} |-> IF x = key THEN v ELSE dict[x]]

\* dict.get(key, '')
Get(dict, key) == IF key \in DOMAIN dict THEN dict[key] ELSE Empty

(***************************************************************************)
(* Return values                                                           *)
(***************************************************************************)
RetVal(code, info) == [code |-> code, info |-> info]

OK == RetVal("", "")

(***************************************************************************)
(* Decimal text <-> integer                                                *)
(***************************************************************************)
Digits == <<"0", "1", "2", "3", "4", "5", "6", "7", "8", "9">>

IsDigit(c) == \E i \in 1..10 : Digits[i] = c

DigitVal(c) == (CHOOSE i \in 1..10 : Digits[i] = c) - 1

RECURSIVE DigitsToNat(_)
DigitsToNat(chars) ==
    IF chars = <<>> THEN 0
    ELSE 10 * DigitsToNat(SubSeq(chars, 1, Len(chars) - 1)) + DigitVal(chars[Len(chars)])

\* int(text) raises unless text is an optional sign followed by digits
IntParses(chars) ==
    LET body == IF chars # <<>> /\ chars[1] \in {"-", "+"} THEN Tail(chars) ELSE chars
    IN  body # <<>> /\ \A i \in 1..Len(body) : IsDigit(body[i])

ParseInt(chars) ==
    IF chars[1] = "-" THEN 0 - DigitsToNat(Tail(chars))
    ELSE IF chars[1] = "+" THEN DigitsToNat(Tail(chars))
    ELSE DigitsToNat(chars)

RECURSIVE NatToDigits(_)
NatToDigits(n) ==
    IF n < 10 THEN <<Digits[n + 1]>>
    ELSE NatToDigits(n \div 10) \o <<Digits[(n % 10) + 1]>>

\* str(n)
IntToStr(n) == IF n < 0 THEN <<"-">> \o NatToDigits(0 - n) ELSE NatToDigits(n)

(***************************************************************************)
(* Entry descriptors                                                       *)
(***************************************************************************)
SIGINFO_HASH == 1

SIGINFO_SIGNATURE == 2

OrgFieldNames ==
    <<"Index", "Name", "Contact-Admin", "Contact-Abuse", "Contact-Support", "Language",
      "Primary-Verification-Key", "Secondary-Verification-Key", "Encryption-Key",
      "Time-To-Live", "Expires">>

OrgRequiredFields ==
    <<"Index", "Name", "Contact-Admin", "Primary-Verification-Key", "Encryption-Key",
      "Time-To-Live", "Expires">>

OrgSignatureInfo ==
    << [name |-> "Custody", level |-> 1, optional |-> TRUE, type |-> SIGINFO_SIGNATURE],
       [name |-> "Organization", level |-> 2, optional |-> FALSE, type |-> SIGINFO_SIGNATURE],
       [name |-> "Hashes", level |-> 3, optional |-> FALSE, type |-> SIGINFO_HASH] >>

UserFieldNames ==
    <<"Index", "Name", "Workspace-ID", "User-ID", "Domain",
      "Contact-Request-Verification-Key", "Contact-Request-Encryption-Key",
      "Public-Encryption-Key", "Alternate-Encryption-Key", "Time-To-Live", "Expires">>

UserRequiredFields ==
    <<"Index", "Workspace-ID", "Domain", "Contact-Request-Verification-Key",
      "Contact-Request-Encryption-Key", "Public-Encryption-Key", "Time-To-Live", "Expires">>

UserSignatureInfo ==
    << [name |-> "Custody", level |-> 1, optional |-> TRUE, type |-> SIGINFO_SIGNATURE],
       [name |-> "Organization", level |-> 2, optional |-> FALSE, type |-> SIGINFO_SIGNATURE],
       [name |-> "Hashes", level |-> 3, optional |-> FALSE, type |-> SIGINFO_HASH],
       [name |-> "User", level |-> 4, optional |-> FALSE, type |-> SIGINFO_SIGNATURE] >>

field_names(e) ==
    IF e.type = "Organization" THEN OrgFieldNames
    ELSE IF e.type = "User" THEN UserFieldNames ELSE <<>>

required_fields(e) ==
    IF e.type = "Organization" THEN OrgRequiredFields
    ELSE IF e.type = "User" THEN UserRequiredFields ELSE <<>>

signature_info(e) ==
    IF e.type = "Organization" THEN OrgSignatureInfo
    ELSE IF e.type = "User" THEN UserSignatureInfo ELSE <<>>

\* sig_names = [x['name'] for x in self.signature_info]
sig_names(e) == [i \in 1..Len(signature_info(e)) |-> signature_info(e)[i].name]

\* sig_names.index(name), counted from 0; the caller checks membership first
IndexOf(names, name) == (CHOOSE i \in 1..Len(names) : names[i] = name) - 1

InSeq(x, seq) == \E i \in 1..Len(seq) : seq[i] = x

(***************************************************************************)
(* Construction                                                            *)
(***************************************************************************)
\* the text set_expiration writes for a date numdays after today
ExpiryDate(numdays) == Txt(<<"T", "+">> \o IntToStr(numdays))

EntryBase ==
    [type |-> "", fields |-> EmptyDict, signatures |-> EmptyDict, prev_hash |-> Empty,
     hash |-> Empty]

set_expiration(e, numdays) ==
    LET days == IF numdays < 0 THEN (IF e.type = "Organization" THEN 365 ELSE 90)
                ELSE numdays
        capped == IF days > 1095 THEN 1095 ELSE days
    IN  IF numdays < 0 /\ e.type \notin {"Organization", "User"} THEN e
        ELSE [e EXCEPT !.fields = Put(e.fields, "Expires", ExpiryDate(capped))]

OrgEntry ==
    LET e0 == [EntryBase EXCEPT !.type = "Organization"]
        e1 == [e0 EXCEPT !.fields = Put(Put(e0.fields, "Index", Txt(<<"1">>)),
                                        "Time-To-Live", Txt(<<"3", "0">>))]
    IN  set_expiration(e1, -1)

UserEntry ==
    LET e0 == [EntryBase EXCEPT !.type = "User"]
        e1 == [e0 EXCEPT !.fields = Put(Put(e0.fields, "Index", Txt(<<"1">>)),
                                        "Time-To-Live", Txt(<<"7">>))]
    IN  set_expiration(e1, -1)

NewEntry(type) == IF type = "Organization" THEN OrgEntry ELSE UserEntry

(***************************************************************************)
(* AlgoString                                                              *)
(***************************************************************************)
\* the text contains a ':' (AlgoString.set succeeds)
HasColon(v) == v.t \in {"pub", "priv", "sig", "dig"} \/ InSeq(":", v.s)

\* AlgoString.is_valid: prefix and data both non-empty; pair id 0 is empty data
is_valid(key) == key.p # "" /\ key.k # 0

(***************************************************************************)
(* EntryBase.is_compliant                                                  *)
(***************************************************************************)
RECURSIVE FirstMissingField(_, _)
FirstMissingField(e, i) ==
    IF i > Len(required_fields(e)) THEN ""
    ELSE LET field == required_fields(e)[i]
         IN  IF ~Has(e.fields, field) \/ ~Truthy(e.fields[field]) THEN field
             ELSE FirstMissingField(e, i + 1)

\* the loop over signature_info that lets an optional slot be present and empty
RECURSIVE FirstMissingSignature_lenient(_, _)
FirstMissingSignature_lenient(e, i) ==
    IF i > Len(signature_info(e)) THEN ""
    ELSE LET info == signature_info(e)[i]
         IN  IF info.type = SIGINFO_HASH
             THEN (IF ~Truthy(e.hash) THEN "Hash" ELSE FirstMissingSignature_lenient(e, i + 1))
             ELSE IF info.optional THEN FirstMissingSignature_lenient(e, i + 1)
             ELSE (IF ~Has(e.signatures, info.name) \/ ~Truthy(e.signatures[info.name])
                   THEN info.name \o "-Signature"
                   ELSE FirstMissingSignature_lenient(e, i + 1))

RECURSIVE FirstMissingSignature(_, _)
FirstMissingSignature(e, i) ==
    IF i > Len(signature_info(e)) THEN ""
    ELSE LET info == signature_info(e)[i]
         IN  IF info.type = SIGINFO_HASH
             THEN (IF ~Truthy(e.hash) THEN "Hash" ELSE FirstMissingSignature(e, i + 1))
             ELSE IF info.optional
             THEN (IF Has(e.signatures, info.name) /\ ~Truthy(e.signatures[info.name])
                   THEN info.name \o "-Signature"
                   ELSE FirstMissingSignature(e, i + 1))
             ELSE (IF ~Has(e.signatures, info.name) \/ ~Truthy(e.signatures[info.name])
                   THEN info.name \o "-Signature"
                   ELSE FirstMissingSignature(e, i + 1))

\* is_compliant that looks at the hash before it walks the slots
is_compliant_hash_first(e) ==
    IF e.type \notin {"User", "Organization"}
    THEN RetVal("UnsupportedKeycardType", e.type)
    ELSE IF FirstMissingField(e, 1) # ""
    THEN RetVal("RequiredFieldMissing", FirstMissingField(e, 1))
    ELSE IF ~Truthy(e.hash)
    THEN RetVal("SignatureMissing", "Hash")
    ELSE IF FirstMissingSignature(e, 1) # ""
    THEN RetVal("SignatureMissing", FirstMissingSignature(e, 1))
    ELSE OK

is_compliant(e) ==
    IF e.type \notin {"User", "Organization"}
    THEN RetVal("UnsupportedKeycardType", e.type)
    ELSE IF FirstMissingField(e, 1) # ""
    THEN RetVal("RequiredFieldMissing", FirstMissingField(e, 1))
    ELSE IF FirstMissingSignature(e, 1) # ""
    THEN RetVal("SignatureMissing", FirstMissingSignature(e, 1))
    ELSE OK

(***************************************************************************)
(* EntryBase.make_bytestring                                               *)
(***************************************************************************)
\* make_bytestring walking required_fields where the code walks field_names
RECURSIVE FieldLines_required(_, _)
FieldLines_required(e, i) ==
    IF i > Len(required_fields(e)) THEN <<>>
    ELSE LET field == required_fields(e)[i]
         IN  (IF Has(e.fields, field) /\ Truthy(e.fields[field])
              THEN << <<field, e.fields[field]>> >> ELSE <<>>)
             \o FieldLines_required(e, i + 1)

\* make_bytestring walking field_names from its end
RECURSIVE FieldLines_reversed(_, _)
FieldLines_reversed(e, i) ==
    IF i > Len(field_names(e)) THEN <<>>
    ELSE LET field == field_names(e)[i]
         IN  FieldLines_reversed(e, i + 1)
             \o (IF Has(e.fields, field) /\ Truthy(e.fields[field])
                 THEN << <<field, e.fields[field]>> >> ELSE <<>>)

RECURSIVE FieldLines(_, _)
FieldLines(e, i) ==
    IF i > Len(field_names(e)) THEN <<>>
    ELSE LET field == field_names(e)[i]
         IN  (IF Has(e.fields, field) /\ Truthy(e.fields[field])
              THEN << <<field, e.fields[field]>> >> ELSE <<>>)
             \o FieldLines(e, i + 1)

\* the lines of slots i..n, for i counted from 1
RECURSIVE SlotLines(_, _, _)
SlotLines(e, i, n) ==
    IF i > n THEN <<>>
    ELSE LET name == sig_names(e)[i]
         IN  (IF signature_info(e)[i].type = SIGINFO_HASH
              THEN (IF Truthy(e.prev_hash) THEN << <<"Previous-Hash", e.prev_hash>> >> ELSE <<>>)
                   \o (IF Truthy(e.hash) THEN << <<"Hash", e.hash>> >> ELSE <<>>)
              ELSE IF Has(e.signatures, name) /\ Truthy(e.signatures[name])
              THEN << <<name \o "-Signature", e.signatures[name]>> >>
              ELSE <<>>)
             \o SlotLines(e, i + 1, n)

\* make_bytestring writing the Previous-Hash and Hash lines whatever the cut-off is
make_bytestring_hash_uncut(e, signature_level) ==
    LET n == Len(signature_info(e))
        level == IF signature_level > n \/ signature_level < 0
                 THEN signature_info(e)[n].level
                 ELSE signature_level
        late == {i \in (level + 1)..n : signature_info(e)[i].type = SIGINFO_HASH}
    IN  (IF e.type # "" THEN << <<"Type", TypeVal(e.type)>> >> ELSE <<>>)
        \o FieldLines(e, 1)
        \o SlotLines(e, 1, level)
        \o (IF late = {} THEN <<>>
            ELSE SlotLines(e, CHOOSE i \in late : TRUE, CHOOSE i \in late : TRUE))

make_bytestring(e, signature_level) ==
    LET level == IF signature_level > Len(signature_info(e)) \/ signature_level < 0
                 THEN signature_info(e)[Len(signature_info(e))].level
                 ELSE signature_level
    IN  (IF e.type # "" THEN << <<"Type", TypeVal(e.type)>> >> ELSE <<>>)
        \o FieldLines(e, 1)
        \o SlotLines(e, 1, level)

(***************************************************************************)
(* EntryBase.set_field, set_fields, set, item assignment                   *)
(***************************************************************************)
\* set_field without the line self.hash = ''
set_field_keeps_hash(e, field_name, field_value) ==
    [e EXCEPT !.fields = Put(e.fields, field_name, field_value),
              !.signatures = EmptyDict]

set_field(e, field_name, field_value) ==
    [e EXCEPT !.fields = Put(e.fields, field_name, field_value),
              !.signatures = EmptyDict,
              !.hash = Empty]

\* self.fields[key] = value
setitem(e, key, value) == [e EXCEPT !.fields = Put(e.fields, key, value)]

SignaturePrefixes == {"Custody", "User", "Organization", "Entry"}

\* the names the model uses that end with 'Signature', and their text before the first '-'
SignatureLineNames ==
    {"Custody-Signature", "User-Signature", "Organization-Signature", "Entry-Signature",
     "Hashes-Signature", "Bogus-Signature"}

EndsWithSignature(name) == name \in SignatureLineNames

\* name.split('-', 1)[0]
SigPart(name) ==
    CHOOSE part \in SignaturePrefixes \cup {"Hashes", "Bogus"} : name = part \o "-Signature"

\* fields is a sequence of <<key, value>> pairs, in the dict's iteration order
RECURSIVE set_fields_from(_, _, _)
set_fields_from(e, fields, i) ==
    IF i > Len(fields) THEN [entry |-> e, ret |-> OK]
    ELSE LET k == fields[i][1]
             v == fields[i][2]
         IN  IF EndsWithSignature(k)
             THEN (IF SigPart(k) \notin SignaturePrefixes
                   THEN [entry |-> e, ret |-> RetVal("BadData", SigPart(k))]
                   ELSE set_fields_from([e EXCEPT !.signatures = Put(e.signatures, SigPart(k), v)],
                                        fields, i + 1))
             ELSE set_fields_from(setitem(e, k, v), fields, i + 1)

set_fields(e, fields) ==
    set_fields_from([e EXCEPT !.signatures = EmptyDict, !.hash = Empty], fields, 1)

\* line.strip() on the value side: trailing white space is dropped
RECURSIVE StripRight(_)
StripRight(chars) ==
    IF chars # <<>> /\ chars[Len(chars)] \in {" ", "\t", "\n", "\r"} THEN StripRight(SubSeq(chars, 1, Len(chars) - 1))
    ELSE chars

Stripped(v) == IF v.t = "str" /\ v.p = "" THEN Txt(StripRight(v.s)) ELSE v

\* a line <<"", Empty>> is an empty line; a line <<"", text>> has no ':'
RECURSIVE set_from(_, _, _)
set_from(e, data, i) ==
    IF i > Len(data) THEN [entry |-> e, ret |-> OK]
    ELSE LET name == data[i][1]
             value == Stripped(data[i][2])
         IN  IF name = "" /\ ~Truthy(value) THEN set_from(e, data, i + 1)
             ELSE IF name = "" THEN [entry |-> e, ret |-> RetVal("BadData", "line")]
             ELSE IF name = "Type"
             THEN (IF value.p # e.type
                   THEN [entry |-> e, ret |-> RetVal("BadData", "Type")]
                   ELSE set_from(e, data, i + 1))
             ELSE IF EndsWithSignature(name)
             THEN (IF SigPart(name) \notin SignaturePrefixes
                   THEN [entry |-> e, ret |-> RetVal("BadData", SigPart(name))]
                   ELSE set_from([e EXCEPT !.signatures = Put(e.signatures, SigPart(name), value)],
                                 data, i + 1))
             ELSE set_from(setitem(e, name, value), data, i + 1)

set(e, data) == set_from(e, data, 1)

(***************************************************************************)
(* EntryBase.sign                                                          *)
(***************************************************************************)
\* the loop with clear_sig set from the start: every slot is emptied
ClearFrom_all(e, sigtype_index) ==
    [name \in (DOMAIN e.signatures) \cup {sig_names(e)[i] : i \in 1..Len(sig_names(e))} |->
        IF InSeq(name, sig_names(e)) THEN Empty ELSE e.signatures[name]]

\* the loop that empties the chosen slot and every slot listed after it
ClearFrom(e, sigtype_index) ==
    [name \in (DOMAIN e.signatures)
                \cup {sig_names(e)[i] : i \in (sigtype_index + 1)..Len(sig_names(e))} |->
        IF \E i \in (sigtype_index + 1)..Len(sig_names(e)) : sig_names(e)[i] = name
        THEN Empty ELSE e.signatures[name]]

\* sign that empties the signatures before it looks at the slot name
sign_clears_first(e, signing_key, sigtype) ==
    IF ~is_valid(signing_key)
    THEN [entry |-> e, ret |-> RetVal("BadParameterValue", "signing key")]
    ELSE IF signing_key.p # "ED25519"
    THEN [entry |-> e, ret |-> RetVal("UnsupportedEncryptionType", signing_key.p)]
    ELSE IF ~InSeq(sigtype, sig_names(e))
    THEN [entry |-> [e EXCEPT !.signatures = ClearFrom(e, 0)],
          ret |-> RetVal("BadParameterValue", "sigtype")]
    ELSE LET sigtype_index == IndexOf(sig_names(e), sigtype)
             cleared == [e EXCEPT !.signatures = ClearFrom(e, sigtype_index)]
             data == make_bytestring(cleared, sigtype_index + 1)
         IN  [entry |-> [cleared EXCEPT !.signatures =
                            Put(cleared.signatures, sigtype, SigVal(signing_key.k, data))],
              ret |-> OK]

sign(e, signing_key, sigtype) ==
    IF ~is_valid(signing_key)
    THEN [entry |-> e, ret |-> RetVal("BadParameterValue", "signing key")]
    ELSE IF signing_key.p # "ED25519"
    THEN [entry |-> e, ret |-> RetVal("UnsupportedEncryptionType", signing_key.p)]
    ELSE IF ~InSeq(sigtype, sig_names(e))
    THEN [entry |-> e, ret |-> RetVal("BadParameterValue", "sigtype")]
    ELSE LET sigtype_index == IndexOf(sig_names(e), sigtype)
             cleared == [e EXCEPT !.signatures = ClearFrom(e, sigtype_index)]
             data == make_bytestring(cleared, sigtype_index + 1)
         IN  [entry |-> [cleared EXCEPT !.signatures =
                            Put(cleared.signatures, sigtype, SigVal(signing_key.k, data))],
              ret |-> OK]

(***************************************************************************)
(* EntryBase.generate_hash                                                 *)
(***************************************************************************)
SupportedHashes == {"BLAKE3-256", "BLAKE2", "SHA-256", "SHA3-256"}

\* the hash function the dispatch runs for an accepted tag
Hasher(algorithm) ==
    IF algorithm = "BLAKE3-256" THEN 1
    ELSE IF algorithm = "BLAKE2" THEN 2
    ELSE IF algorithm = "SHA-256" THEN 3
    ELSE 4

\* level of the first slot of type SIGINFO_HASH
hash_level(e) ==
    signature_info(e)[CHOOSE i \in 1..Len(signature_info(e)) :
        /\ signature_info(e)[i].type = SIGINFO_HASH
        /\ \A j \in 1..(i - 1) : signature_info(e)[j].type # SIGINFO_HASH].level

generate_hash(e, algorithm) ==
    IF algorithm \notin SupportedHashes
    THEN [entry |-> e, ret |-> RetVal("UnsupportedHashType", algorithm)]
    ELSE [entry |-> [e EXCEPT !.hash = DigVal(algorithm, Hasher(algorithm),
                                              make_bytestring(e, hash_level(e)))],
          ret |-> OK]

(***************************************************************************)
(* EntryBase.verify_signature                                              *)
(***************************************************************************)
\* vkey.verify(data, signature) of PyNaCl
NaclVerify(verify_key, data, sig) ==
    sig.t = "sig" /\ verify_key.t = "pub" /\ sig.k = verify_key.k /\ sig.d = data

\* verify_signature cutting the bytes after the slot, as sign does, and not before it
verify_signature_own_slot(e, verify_key, sigtype) ==
    IF ~is_valid(verify_key) THEN RetVal("BadParameterValue", "bad verify key")
    ELSE IF ~InSeq(sigtype, sig_names(e)) THEN RetVal("BadParameterValue", "bad signature type")
    ELSE IF verify_key.p # "ED25519" THEN RetVal("UnsupportedEncryptionType", verify_key.p)
    ELSE IF Has(e.signatures, sigtype) /\ ~Truthy(e.signatures[sigtype])
    THEN RetVal("NotCompliant", sigtype)
    ELSE IF ~Has(e.signatures, sigtype) THEN RetVal("raise KeyError", sigtype)
    ELSE IF ~HasColon(e.signatures[sigtype])
    THEN RetVal("BadParameterValue", "data is not colon-separated")
    ELSE IF NaclVerify(verify_key,
                       make_bytestring(e, IndexOf(sig_names(e), sigtype) + 1),
                       e.signatures[sigtype])
    THEN OK
    ELSE RetVal("InvalidKeycard", "")

verify_signature(e, verify_key, sigtype) ==
    IF ~is_valid(verify_key) THEN RetVal("BadParameterValue", "bad verify key")
    ELSE IF ~InSeq(sigtype, sig_names(e)) THEN RetVal("BadParameterValue", "bad signature type")
    ELSE IF verify_key.p # "ED25519" THEN RetVal("UnsupportedEncryptionType", verify_key.p)
    ELSE IF Has(e.signatures, sigtype) /\ ~Truthy(e.signatures[sigtype])
    THEN RetVal("NotCompliant", sigtype)
    ELSE IF ~Has(e.signatures, sigtype) THEN RetVal("raise KeyError", sigtype)
    ELSE IF ~HasColon(e.signatures[sigtype])
    THEN RetVal("BadParameterValue", "data is not colon-separated")
    ELSE IF NaclVerify(verify_key,
                       make_bytestring(e, IndexOf(sig_names(e), sigtype)),
                       e.signatures[sigtype])
    THEN OK
    ELSE RetVal("InvalidKeycard", "")

(***************************************************************************)
(* OrgEntry.chain, UserEntry.chain                                         *)
(***************************************************************************)
\* id of the j-th key pair a call of chain generates; ids below 10 are the callers' keys
Fresh(j) == 10 + j

\* int(text) does not raise
IsIntText(v) == v.t = "str" /\ v.p = "" /\ IntParses(v.s)

\* the copy of the fields without the increment
IncrementIndex_not(e) == e

\* new_entry.fields['Index'] = str(int(new_entry.fields['Index']) + 1)
IncrementIndex(e) ==
    [e EXCEPT !.fields = Put(e.fields, "Index", Txt(IntToStr(ParseInt(e.fields["Index"].s) + 1)))]

NoBundle == EmptyDict

OrgBundle(e, rotate_optional) ==
    [n \in {"sign.public", "sign.private", "encrypt.public", "encrypt.private",
            "altsign.public", "altsign.private"} |->
        IF n = "sign.public" THEN PubKey("ED25519", Fresh(1))
        ELSE IF n = "sign.private" THEN PrivKey("ED25519", Fresh(1))
        ELSE IF n = "encrypt.public" THEN PubKey("CURVE25519", Fresh(2))
        ELSE IF n = "encrypt.private" THEN PrivKey("CURVE25519", Fresh(2))
        ELSE IF n = "altsign.public"
        THEN (IF rotate_optional THEN PubKey("ED25519", Fresh(3))
              ELSE e.fields["Primary-Verification-Key"])
        ELSE (IF rotate_optional THEN PrivKey("ED25519", Fresh(3)) ELSE Empty)]

OrgEntry_chain(e, key, rotate_optional) ==
    IF key.p # "ED25519"
    THEN [entry |-> EntryBase, out |-> NoBundle, ret |-> RetVal("BadParameterValue", key.p)]
    ELSE IF is_compliant(e) # OK
    THEN [entry |-> EntryBase, out |-> NoBundle, ret |-> is_compliant(e)]
    ELSE IF ~IsIntText(e.fields["Index"])
    THEN [entry |-> EntryBase, out |-> NoBundle, ret |-> RetVal("BadData", "invalid entry index")]
    ELSE LET new_entry == IncrementIndex([OrgEntry EXCEPT !.fields = e.fields])
             signed == sign(new_entry, key, "Custody")
         IN  IF signed.ret # OK
             THEN [entry |-> EntryBase, out |-> NoBundle, ret |-> signed.ret]
             ELSE [entry |-> signed.entry, out |-> OrgBundle(e, rotate_optional), ret |-> OK]

UserBundle(rotate_optional) ==
    [n \in {"sign.public", "sign.private", "crsign.public", "crsign.private",
            "crencrypt.public", "crencrypt.private", "encrypt.public", "encrypt.private",
            "altencrypt.public", "altencrypt.private"} |->
        IF n = "sign.public" THEN PubKey("ED25519", Fresh(1))
        ELSE IF n = "sign.private" THEN PrivKey("ED25519", Fresh(1))
        ELSE IF n = "crsign.public" THEN PubKey("ED25519", Fresh(2))
        ELSE IF n = "crsign.private" THEN PrivKey("ED25519", Fresh(2))
        ELSE IF n = "crencrypt.public" THEN PubKey("CURVE25519", Fresh(3))
        ELSE IF n = "crencrypt.private" THEN PrivKey("CURVE25519", Fresh(3))
        ELSE IF ~rotate_optional THEN Empty
        ELSE IF n = "encrypt.public" THEN PubKey("CURVE25519", Fresh(4))
        ELSE IF n = "encrypt.private" THEN PrivKey("CURVE25519", Fresh(4))
        ELSE IF n = "altencrypt.public" THEN PubKey("CURVE25519", Fresh(5))
        ELSE PrivKey("CURVE25519", Fresh(5))]

\* UserEntry.chain that only copies the fields, as OrgEntry.chain does
UserEntry_chain_copy(e, key, rotate_optional) ==
    IF key.p # "ED25519"
    THEN [entry |-> EntryBase, out |-> NoBundle, ret |-> RetVal("BadParameterValue", key.p)]
    ELSE IF is_compliant(e) # OK
    THEN [entry |-> EntryBase, out |-> NoBundle, ret |-> is_compliant(e)]
    ELSE IF ~IsIntText(e.fields["Index"])
    THEN [entry |-> EntryBase, out |-> NoBundle, ret |-> RetVal("BadData", "invalid entry index")]
    ELSE LET signed == sign(IncrementIndex([UserEntry EXCEPT !.fields = e.fields]),
                            key, "Custody")
         IN  IF signed.ret # OK
             THEN [entry |-> EntryBase, out |-> NoBundle, ret |-> signed.ret]
             ELSE [entry |-> signed.entry, out |-> UserBundle(rotate_optional), ret |-> OK]

\* UserEntry.chain without the call of is_compliant
UserEntry_chain_any(e, key, rotate_optional) ==
    IF key.p # "ED25519"
    THEN [entry |-> EntryBase, out |-> NoBundle, ret |-> RetVal("BadParameterValue", key.p)]
    ELSE IF ~IsIntText(e.fields["Index"])
    THEN [entry |-> EntryBase, out |-> NoBundle, ret |-> RetVal("BadData", "invalid entry index")]
    ELSE LET out == UserBundle(rotate_optional)
             e1 == IncrementIndex([UserEntry EXCEPT !.fields = e.fields])
             e2 == setitem(setitem(e1, "Contact-Request-Verification-Key", out["crsign.public"]),
                           "Contact-Request-Encryption-Key", out["crencrypt.public"])
             e3 == IF rotate_optional
                   THEN setitem(setitem(e2, "Public-Encryption-Key", out["encrypt.public"]),
                                "Alternate-Encryption-Key", out["altencrypt.public"])
                   ELSE e2
             signed == sign(e3, key, "Custody")
         IN  IF signed.ret # OK
             THEN [entry |-> EntryBase, out |-> NoBundle, ret |-> signed.ret]
             ELSE [entry |-> signed.entry, out |-> out, ret |-> OK]

UserEntry_chain(e, key, rotate_optional) ==
    IF key.p # "ED25519"
    THEN [entry |-> EntryBase, out |-> NoBundle, ret |-> RetVal("BadParameterValue", key.p)]
    ELSE IF is_compliant(e) # OK
    THEN [entry |-> EntryBase, out |-> NoBundle, ret |-> is_compliant(e)]
    ELSE IF ~IsIntText(e.fields["Index"])
    THEN [entry |-> EntryBase, out |-> NoBundle, ret |-> RetVal("BadData", "invalid entry index")]
    ELSE LET out == UserBundle(rotate_optional)
             e1 == IncrementIndex([UserEntry EXCEPT !.fields = e.fields])
             e2 == setitem(setitem(e1, "Contact-Request-Verification-Key", out["crsign.public"]),
                           "Contact-Request-Encryption-Key", out["crencrypt.public"])
             e3 == IF rotate_optional
                   THEN setitem(setitem(e2, "Public-Encryption-Key", out["encrypt.public"]),
                                "Alternate-Encryption-Key", out["altencrypt.public"])
                   ELSE e2
             signed == sign(e3, key, "Custody")
         IN  IF signed.ret # OK
             THEN [entry |-> EntryBase, out |-> NoBundle, ret |-> signed.ret]
             ELSE [entry |-> signed.entry, out |-> out, ret |-> OK]

\* new_entry.fields = self.fields: the new entry is given the dictionary of self
fields_alias(fields) == [items |-> fields, same |-> TRUE]

\* self.fields.copy(): a dictionary with the same items that is another object, so that a
\* store into it does not show in self.fields
fields_copy(fields) == [items |-> fields, same |-> FALSE]

\* the stores of chain into new_entry.fields, up to the call of sign
chain_stores(e, rotate_optional) ==
    LET e1 == IncrementIndex([e EXCEPT !.fields = fields_copy(e.fields).items])
        e2 == setitem(setitem(e1, "Contact-Request-Verification-Key",
                              UserBundle(rotate_optional)["crsign.public"]),
                      "Contact-Request-Encryption-Key",
                      UserBundle(rotate_optional)["crencrypt.public"])
        e3 == IF rotate_optional
              THEN setitem(setitem(e2, "Public-Encryption-Key",
                                   UserBundle(rotate_optional)["encrypt.public"]),
                           "Alternate-Encryption-Key",
                           UserBundle(rotate_optional)["altencrypt.public"])
              ELSE e2
    IN  IF e.type = "Organization" THEN e1.fields ELSE e3.fields

\* the entry chain was called on, after the call: chain reads self and stores into
\* new_entry.fields only
chain_self(e, key, rotate_optional) ==
    IF key.p # "ED25519" \/ is_compliant(e) # OK \/ ~IsIntText(e.fields["Index"]) THEN e
    ELSE IF fields_copy(e.fields).same
    THEN [e EXCEPT !.fields = chain_stores(e, rotate_optional)]
    ELSE e

\* the entry chain was called on, after a store into the fields of the entry it returned
store_seen(prev, new_entry) ==
    IF fields_copy(prev.fields).same THEN [prev EXCEPT !.fields = new_entry.fields] ELSE prev

chain(e, key, rotate_optional) ==
    IF e.type = "Organization" THEN OrgEntry_chain(e, key, rotate_optional)
    ELSE UserEntry_chain(e, key, rotate_optional)

(***************************************************************************)
(* OrgEntry.verify_chain, UserEntry.verify_chain                           *)
(***************************************************************************)
\* the field of the previous entry that holds the key the custody signature is checked with
CustodyKeyField(e) ==
    IF e.type = "Organization" THEN "Primary-Verification-Key"
    ELSE "Contact-Request-Verification-Key"

\* verify_signature(AlgoString(text), 'Custody'): AlgoString(text) of a text without ':'
\* has no prefix attribute, and is_valid raises
verify_custody(e, text) ==
    IF ~HasColon(text) THEN RetVal("raise AttributeError", "prefix")
    ELSE verify_signature(e, text, "Custody")

\* OrgEntry.verify_chain comparing index with prev_index, without the + 1
OrgEntry_verify_chain_same_index(e, previous) ==
    IF previous.type # "Organization" THEN RetVal("BadParameterValue", "entry type mismatch")
    ELSE IF ~Has(e.signatures, "Custody") \/ ~Truthy(e.signatures["Custody"])
    THEN RetVal("ResourceNotFound", "custody signature missing")
    ELSE IF ~Has(previous.fields, "Primary-Verification-Key")
            \/ ~Truthy(previous.fields["Primary-Verification-Key"])
    THEN RetVal("ResourceNotFound", "signing key missing")
    ELSE IF ~Has(previous.fields, "Index") \/ ~IsIntText(previous.fields["Index"])
    THEN RetVal("BadData", "previous entry has a bad index")
    ELSE IF ~Has(e.fields, "Index") \/ ~IsIntText(e.fields["Index"])
    THEN RetVal("BadData", "current entry has a bad index")
    ELSE IF ParseInt(e.fields["Index"].s) # ParseInt(previous.fields["Index"].s)
    THEN RetVal("InvalidKeycard", "entry index compliance failure")
    ELSE verify_custody(e, previous.fields["Primary-Verification-Key"])

OrgEntry_verify_chain(e, previous) ==
    IF previous.type # "Organization" THEN RetVal("BadParameterValue", "entry type mismatch")
    ELSE IF ~Has(e.signatures, "Custody") \/ ~Truthy(e.signatures["Custody"])
    THEN RetVal("ResourceNotFound", "custody signature missing")
    ELSE IF ~Has(previous.fields, "Primary-Verification-Key")
            \/ ~Truthy(previous.fields["Primary-Verification-Key"])
    THEN RetVal("ResourceNotFound", "signing key missing")
    ELSE IF ~Has(previous.fields, "Index") \/ ~IsIntText(previous.fields["Index"])
    THEN RetVal("BadData", "previous entry has a bad index")
    ELSE IF ~Has(e.fields, "Index") \/ ~IsIntText(e.fields["Index"])
    THEN RetVal("BadData", "current entry has a bad index")
    ELSE IF ParseInt(e.fields["Index"].s) # ParseInt(previous.fields["Index"].s) + 1
    THEN RetVal("InvalidKeycard", "entry index compliance failure")
    ELSE verify_custody(e, previous.fields["Primary-Verification-Key"])

\* UserEntry.verify_chain without the check that a Custody signature is stored
UserEntry_verify_chain_unchecked(e, previous) ==
    IF previous.type # "User" THEN RetVal("BadParameterValue", "entry type mismatch")
    ELSE IF ~Has(previous.fields, "Contact-Request-Verification-Key")
            \/ ~Truthy(previous.fields["Contact-Request-Verification-Key"])
    THEN RetVal("ResourceNotFound", "signing key missing")
    ELSE verify_custody(e, previous.fields["Contact-Request-Verification-Key"])

UserEntry_verify_chain(e, previous) ==
    IF previous.type # "User" THEN RetVal("BadParameterValue", "entry type mismatch")
    ELSE IF ~Has(e.signatures, "Custody") \/ ~Truthy(e.signatures["Custody"])
    THEN RetVal("ResourceNotFound", "custody signature missing")
    ELSE IF ~Has(previous.fields, "Contact-Request-Verification-Key")
            \/ ~Truthy(previous.fields["Contact-Request-Verification-Key"])
    THEN RetVal("ResourceNotFound", "signing key missing")
    ELSE verify_custody(e, previous.fields["Contact-Request-Verification-Key"])

verify_chain(e, previous) ==
    IF e.type = "Organization" THEN OrgEntry_verify_chain(e, previous)
    ELSE UserEntry_verify_chain(e, previous)

(***************************************************************************)
(* Keycard: chain, verify, save, load                                      *)
(***************************************************************************)
\* Keycard.chain with the new entry appended before it is signed in the User slot
Keycard_chain_early(entries, key, rotate_optional) ==
    IF Len(entries) < 1
    THEN [entries |-> entries, out |-> NoBundle,
          ret |-> RetVal("ResourceNotFound", "missing root entry")]
    ELSE LET chaindata == chain(entries[Len(entries)], key, rotate_optional)
         IN  IF chaindata.ret # OK
             THEN [entries |-> entries, out |-> NoBundle, ret |-> chaindata.ret]
             ELSE IF ~HasColon(chaindata.out["sign.private"])
             THEN [entries |-> Append(entries, chaindata.entry), out |-> NoBundle,
                   ret |-> RetVal("BadParameterValue", "data is not colon-separated")]
             ELSE LET status == sign(chaindata.entry, chaindata.out["sign.private"], "User")
                  IN  IF status.ret # OK
                      THEN [entries |-> Append(entries, chaindata.entry), out |-> NoBundle,
                            ret |-> status.ret]
                      ELSE [entries |-> Append(entries, status.entry),
                            out |-> chaindata.out, ret |-> OK]

\* a keycard is its list of entries; a file is the sequence of its lines
\* Keycard.chain: the last entry is chained, the new entry is signed in the User slot with
\* the new primary signing key and appended
Keycard_chain(entries, key, rotate_optional) ==
    IF Len(entries) < 1
    THEN [entries |-> entries, out |-> NoBundle,
          ret |-> RetVal("ResourceNotFound", "missing root entry")]
    ELSE LET chaindata == chain(entries[Len(entries)], key, rotate_optional)
         IN  IF chaindata.ret # OK
             THEN [entries |-> entries, out |-> NoBundle, ret |-> chaindata.ret]
             ELSE IF ~HasColon(chaindata.out["sign.private"])
             THEN [entries |-> entries, out |-> NoBundle,
                   ret |-> RetVal("BadParameterValue", "data is not colon-separated")]
             ELSE LET status == sign(chaindata.entry, chaindata.out["sign.private"], "User")
                  IN  IF status.ret # OK
                      THEN [entries |-> entries, out |-> NoBundle, ret |-> status.ret]
                      ELSE [entries |-> Append(entries, status.entry),
                            out |-> chaindata.out, ret |-> OK]

\* Keycard.verify looking at the first pair of entries only
Keycard_verify_first_pair(entries, i) ==
    IF Len(entries) = 0 THEN RetVal("ResourceNotFound", "keycard contains no entries")
    ELSE IF Len(entries) = 1 THEN OK
    ELSE verify_chain(entries[2], entries[1])

\* Keycard.verify; the loop is at pair i, counted from 1
RECURSIVE Keycard_verify_from(_, _)
Keycard_verify_from(entries, i) ==
    IF Len(entries) = 0 THEN RetVal("ResourceNotFound", "keycard contains no entries")
    ELSE IF Len(entries) = 1 THEN OK
    ELSE IF i > Len(entries) - 1 THEN OK
    ELSE LET status == verify_chain(entries[i + 1], entries[i])
         IN  IF status # OK THEN status ELSE Keycard_verify_from(entries, i + 1)

Keycard_verify(entries) == Keycard_verify_from(entries, 1)

BeginMarker == <<"", Txt(<<"----- BEGIN ENTRY -----">>)>>

EndMarker == <<"", Txt(<<"----- END ENTRY -----">>)>>

\* Keycard.save to a path that can be written: the lines of the file
RECURSIVE Keycard_save(_)
Keycard_save(entries) ==
    IF entries = <<>> THEN <<>>
    ELSE <<BeginMarker>> \o make_bytestring(Head(entries), -1) \o <<EndMarker>>
         \o Keycard_save(Tail(entries))

\* Keycard.load before the first line is read
LoadStart ==
    [card_type |-> "", accumulator |-> <<>>, entries |-> <<>>, ret |-> OK, returned |-> FALSE]

LoadReturn(st, ret) == [st EXCEPT !.ret = ret, !.returned = TRUE]

\* the loop body taking card_type from every Type line instead of comparing
load_line_retyped(st, rawline) ==
    LET name == rawline[1]
        value == Stripped(rawline[2])
        line == <<name, value>>
    IN  IF st.returned THEN st
        ELSE IF name = "" /\ ~Truthy(value) THEN LoadReturn(st, RetVal("no return", "empty line"))
        ELSE IF line = BeginMarker THEN [st EXCEPT !.accumulator = <<>>]
        ELSE IF line = EndMarker
        THEN (IF st.card_type \notin {"User", "Organization"}
              THEN LoadReturn(st, RetVal("UnsupportedKeycardType", "entry has invalid type"))
              ELSE LET status == set(NewEntry(st.card_type), st.accumulator)
                   IN  IF status.ret # OK THEN LoadReturn(st, status.ret)
                       ELSE [st EXCEPT !.entries = Append(st.entries, status.entry)])
        ELSE IF name = "" THEN LoadReturn(st, RetVal("BadData", "invalid line"))
        ELSE [st EXCEPT !.card_type = IF name = "Type" THEN value.p ELSE st.card_type,
                        !.accumulator = Append(st.accumulator, line)]

\* one turn of the loop of Keycard.load.  An empty line is never stepped over (the loop
\* continues without reading on), so the call does not return.
load_line(st, rawline) ==
    LET name == rawline[1]
        value == Stripped(rawline[2])
        line == <<name, value>>
    IN  IF st.returned THEN st
        ELSE IF name = "" /\ ~Truthy(value) THEN LoadReturn(st, RetVal("no return", "empty line"))
        ELSE IF line = BeginMarker THEN [st EXCEPT !.accumulator = <<>>]
        ELSE IF line = EndMarker
        THEN (IF st.card_type \notin {"User", "Organization"}
              THEN LoadReturn(st, RetVal("UnsupportedKeycardType", "entry has invalid type"))
              ELSE LET status == set(NewEntry(st.card_type), st.accumulator)
                   IN  IF status.ret # OK THEN LoadReturn(st, status.ret)
                       ELSE [st EXCEPT !.entries = Append(st.entries, status.entry)])
        ELSE IF name = "" THEN LoadReturn(st, RetVal("BadData", "invalid line"))
        ELSE IF name = "Type" /\ st.card_type # "" /\ st.card_type # value.p
        THEN LoadReturn(st, RetVal("BadData", "entry type does not match keycard"))
        ELSE [st EXCEPT !.card_type = IF name = "Type" /\ st.card_type = ""
                                      THEN value.p ELSE st.card_type,
                        !.accumulator = Append(st.accumulator, line)]

\* the loop of Keycard.load over lines lo..hi of the file, entered in state st; the
\* range is walked in two halves, the second one only if the first did not return
RECURSIVE load_lines(_, _, _, _)
load_lines(file, lo, hi, st) ==
    IF lo > hi THEN st
    ELSE IF lo = hi THEN load_line(st, file[lo])
    ELSE LET first == load_lines(file, lo, (lo + hi) \div 2, st)
         IN  IF first.returned THEN first
             ELSE load_lines(file, (lo + hi) \div 2 + 1, hi, first)

\* Keycard().load(path) of a file that exists
Keycard_load(file) ==
    [entries |-> load_lines(file, 1, Len(file), LoadStart).entries,
     ret |-> load_lines(file, 1, Len(file), LoadStart).ret]

(***************************************************************************)
(* Key objects and saving to a path: EntryBase.save, Keycard.save,         *)
(* KeyPair.save, SecretKey.save, load_encryptionpair, load_secretkey       *)
(***************************************************************************)
\* no key object constructed
NoKey == [class |-> ""]

\* base64.b85encode of key bytes and base64.b85decode of such a text
b85encode(v) == [t |-> "b85", p |-> "", k |-> 0, s |-> <<>>, d |-> <<v>>]

b85decode(v) == v.d[1]

\* KeyPair(category, public, private, encryption); without all three a pair is generated
KeyPair(public, private, encryption) ==
    IF Truthy(public) /\ Truthy(private) /\ encryption # ""
    THEN [class |-> "KeyPair", type |-> "asymmetric", enc_type |-> encryption,
          public |-> public, private |-> private]
    ELSE [class |-> "KeyPair", type |-> "asymmetric", enc_type |-> "curve25519",
          public |-> PubKey("CURVE25519", 8), private |-> PrivKey("CURVE25519", 8)]

\* SecretKey(category, key, encryption); without both a key is generated
SecretKey(key, encryption) ==
    IF Truthy(key) /\ encryption # ""
    THEN [class |-> "SecretKey", type |-> encryption, enc_type |-> encryption, key |-> key]
    ELSE [class |-> "SecretKey", type |-> "symmetric", enc_type |-> "salsa20",
          key |-> PrivKey("SALSA20", 9)]

\* the file at a path: absent, or there with the lines written to it
NoFile == [exists |-> FALSE, data |-> <<>>]

EntryBase_save(e, path, clobber, file) ==
    IF path = "" THEN [file |-> file, ret |-> RetVal("BadParameterValue", "path may not be empty")]
    ELSE IF file.exists /\ ~clobber THEN [file |-> file, ret |-> RetVal("ResourceExists", "")]
    ELSE [file |-> [exists |-> TRUE, data |-> make_bytestring(e, -1)], ret |-> OK]

\* Keycard.save that opens the file whether or not it exists
Keycard_save_clobbering(entries, path, clobber, file) ==
    IF path = "" THEN [file |-> file, ret |-> RetVal("BadParameterValue", "path may not be empty")]
    ELSE [file |-> [exists |-> TRUE, data |-> Keycard_save(entries)], ret |-> OK]

Keycard_save_to(entries, path, clobber, file) ==
    IF path = "" THEN [file |-> file, ret |-> RetVal("BadParameterValue", "path may not be empty")]
    ELSE IF file.exists /\ ~clobber THEN [file |-> file, ret |-> RetVal("ResourceExists", "")]
    ELSE [file |-> [exists |-> TRUE, data |-> Keycard_save(entries)], ret |-> OK]

\* KeyPair.save; the JSON object is written as its members in order
KeyPair_save(pair, path, file) ==
    IF path = "" THEN [file |-> file, ret |-> RetVal("BadParameterValue", "path may not be empty")]
    ELSE IF file.exists THEN [file |-> file, ret |-> RetVal("ResourceExists", "path exists")]
    ELSE [file |-> [exists |-> TRUE,
                    data |-> << <<"type", TypeVal("encryptionpair")>>,
                                <<"encryption", TypeVal(pair.enc_type)>>,
                                <<"publickey", b85encode(pair.public)>>,
                                <<"privatekey", b85encode(pair.private)>> >>],
          ret |-> OK]

SecretKey_save(sk, path, file) ==
    IF path = "" THEN [file |-> file, ret |-> RetVal("BadParameterValue", "path may not be empty")]
    ELSE IF file.exists THEN [file |-> file, ret |-> RetVal("ResourceExists", "path exists")]
    ELSE [file |-> [exists |-> TRUE,
                    data |-> << <<"type", TypeVal("secretkey")>>,
                                <<"encryption", TypeVal(sk.enc_type)>>,
                                <<"key", b85encode(sk.key)>> >>],
          ret |-> OK]

\* indata[name] of the JSON object a key file holds; a file of another kind does not parse
JsonGet(data, name) ==
    IF \E i \in 1..Len(data) : data[i][1] = name
    THEN data[CHOOSE i \in 1..Len(data) : data[i][1] = name][2]
    ELSE Empty

\* json.load, the schema (type 'encryptionpair', encryption 'curve25519') and the
\* decoding of the two keys; a key that is absent or does not decode gives BadData
load_encryptionpair(path, file) ==
    IF path = "" THEN [obj |-> NoKey, ret |-> RetVal("BadParameterValue", "path may not be empty")]
    ELSE IF ~file.exists THEN [obj |-> NoKey, ret |-> RetVal("ResourceNotFound", "path exists")]
    ELSE IF file.data = <<>> \/ file.data[1][1] # "type"
    THEN [obj |-> NoKey, ret |-> RetVal("ExceptionThrown", "json")]
    ELSE IF \/ JsonGet(file.data, "type").p # "encryptionpair"
            \/ JsonGet(file.data, "encryption").p # "curve25519"
    THEN [obj |-> NoKey, ret |-> RetVal("BadData", "file data does not validate")]
    ELSE IF \E n \in {"publickey", "privatekey"} : JsonGet(file.data, n).t # "b85"
    THEN [obj |-> NoKey, ret |-> RetVal("BadData", "Failure to base85 decode key data")]
    ELSE [obj |-> KeyPair(b85decode(JsonGet(file.data, "publickey")),
                          b85decode(JsonGet(file.data, "privatekey")),
                          JsonGet(file.data, "encryption").p),
          ret |-> OK]

\* the same with the schema of a secret key (type 'secretkey', encryption 'salsa20')
load_secretkey(path, file) ==
    IF path = "" THEN [obj |-> NoKey, ret |-> RetVal("BadParameterValue", "path may not be empty")]
    ELSE IF ~file.exists THEN [obj |-> NoKey, ret |-> RetVal("ResourceNotFound", "path exists")]
    ELSE IF file.data = <<>> \/ file.data[1][1] # "type"
    THEN [obj |-> NoKey, ret |-> RetVal("ExceptionThrown", "json")]
    ELSE IF \/ JsonGet(file.data, "type").p # "secretkey"
            \/ JsonGet(file.data, "encryption").p # "salsa20"
    THEN [obj |-> NoKey, ret |-> RetVal("BadData", "file data does not validate")]
    ELSE IF JsonGet(file.data, "key").t # "b85"
    THEN [obj |-> NoKey, ret |-> RetVal("BadData", "Failure to base85 decode key data")]
    ELSE [obj |-> SecretKey(b85decode(JsonGet(file.data, "key")),
                            JsonGet(file.data, "encryption").p),
          ret |-> OK]

(***************************************************************************)
(* encryption.check_password_complexity                                    *)
(***************************************************************************)
\* a passphrase is the sequence of its characters; "U+00E9" stands for one character
\* outside ASCII
UpperCase ==
    {"A", "B", "C", "D", "E", "F", "G", "H", "I", "J", "K", "L", "M",
     "N", "O", "P", "Q", "R", "S", "T", "U", "V", "W", "X", "Y", "Z"}

LowerCase ==
    {"a", "b", "c", "d", "e", "f", "g", "h", "i", "j", "k", "l", "m",
     "n", "o", "p", "q", "r", "s", "t", "u", "v", "w", "x", "y", "z"}

\* the character class of the last re.search
Punctuation ==
    {"~", "`", "!", "@", "#", "$", "%", "^", "&", "*", "(", ")", "_", "=", "{", "}", "/",
     "<", ">", ",", ".", ":", ";", "|", "'", "[", "]", "\"", "\\", "-", "+", "?"}

NonAscii == {"U+00E9"}

strength_strings == <<"error", "very weak", "weak", "medium", "strong", "very strong">>

\* the number of character classes, of the five that are looked for, found in indata
strength_score(indata) ==
    LET found(class) == IF \E i \in 1..Len(indata) : indata[i] \in class THEN 1 ELSE 0
    IN  found(NonAscii) + found({Digits[i] : i \in 1..10}) + found(UpperCase)
        + found(LowerCase) + found(Punctuation)

\* the test with every passphrase of fewer than 12 characters held to a score of 3 and
\* no lower limit of 2 for the longer ones
check_password_complexity_long(indata) ==
    IF Len(indata) < 8 THEN RetVal("BadParameterValue", "very weak")
    ELSE IF Len(indata) < 12 /\ strength_score(indata) < 3
    THEN RetVal("BadParameterValue", strength_strings[strength_score(indata) + 1])
    ELSE RetVal("", strength_strings[strength_score(indata) + 1])

\* info holds the value the result carries as 'strength'
check_password_complexity(indata) ==
    IF Len(indata) < 8 THEN RetVal("BadParameterValue", "very weak")
    ELSE IF (Len(indata) < 12 /\ strength_score(indata) < 3) \/ strength_score(indata) < 2
    THEN RetVal("BadParameterValue", strength_strings[strength_score(indata) + 1])
    ELSE RetVal("", strength_strings[strength_score(indata) + 1])

(***************************************************************************)
(* Inputs                                                                  *)
(***************************************************************************)
\* key pairs of the test suite: 1 organization primary signing, 2 user signing,
\* 3 user contact request signing, 4..6 encryption
OrgFixture ==
    << <<"Name", Txt(<<"A">>)>>,
       <<"Contact-Admin", Txt(<<"a", "/", "x">>)>>,
       <<"Language", Txt(<<"e", "n">>)>>,
       <<"Domain", Txt(<<"x">>)>>,
       <<"Primary-Verification-Key", PubKey("ED25519", 1)>>,
       <<"Encryption-Key", PubKey("CURVE25519", 6)>> >>

UserFixture ==
    << <<"Name", Txt(<<"C">>)>>,
       <<"Workspace-ID", Txt(<<"4", "4">>)>>,
       <<"User-ID", Txt(<<"c">>)>>,
       <<"Domain", Txt(<<"x">>)>>,
       <<"Contact-Request-Verification-Key", PubKey("ED25519", 3)>>,
       <<"Contact-Request-Encryption-Key", PubKey("CURVE25519", 4)>>,
       <<"Public-Encryption-Key", PubKey("CURVE25519", 5)>> >>

FieldsInputs(e) == IF e.type = "Organization" THEN {OrgFixture} ELSE {UserFixture}

SetFieldInputs == { <<"Name", Txt(<<"B">>)>>, <<"Nickname", Txt(<<"B">>)>> }

\* a value with a line feed inside
LineInputs == { <<"Name", Txt(<<"B", "\n", "C">>)>> }

IndexInputs == { <<"Index", Txt(<<"9">>)>>, <<"Index", Txt(<<"x">>)>>, <<"Index", Txt(<<"-", "1">>)>> }

SetItemInputs == { <<"Name", Txt(<<"Z">>)>> }

\* <<key, slot>> pairs given to sign
SignInputs ==
    { <<PrivKey("ED25519", 1), "Custody">>, <<PrivKey("ED25519", 1), "Organization">>,
      <<PrivKey("ED25519", 1), "Hashes">>, <<PrivKey("ED25519", 2), "User">>,
      <<PrivKey("ED25519", 1), "Entry">>, <<PrivKey("CURVE25519", 4), "Organization">> }

\* the signatures an entry gets in its normal life
RoleSignInputs ==
    { <<PrivKey("ED25519", 1), "Custody">>, <<PrivKey("ED25519", 1), "Organization">>,
      <<PrivKey("ED25519", 2), "User">> }

\* <<key, slot>> pairs given to verify_signature
VerifyInputs ==
    { <<PubKey("ED25519", 1), "Custody">>, <<PubKey("ED25519", 1), "Organization">>,
      <<PubKey("ED25519", 2), "Organization">>, <<PubKey("ED25519", 2), "User">>,
      <<PubKey("ED25519", 1), "User">>, <<PubKey("CURVE25519", 4), "Organization">> }

HashInputs == {"BLAKE3-256", "BLAKE2", "BLAKE2B-256", "SHA-256", "SHA3-256", "SHA-512"}

\* tags given to generate_hash on an entry that already holds a hash
RehashInputs == {"BLAKE3-256", "BLAKE2B-256", "SHA-512"}

OneHashInput == {"BLAKE3-256"}

PrevHashInputs == { Txt(<<"1", "2">>) }

\* a signature taken from another entry, and a line of the other entry type
DataInputs ==
    { << <<"Custody-Signature", SigVal(3, << <<"Type", TypeVal("User")>> >>)>> >>,
      << <<"Type", TypeVal("User")>>, <<"Name", Txt(<<"Z">>)>>, <<"", Empty>> >> }

ChainInputs == { PrivKey("ED25519", 1), PrivKey("ED25519", 3), PrivKey("CURVE25519", 4) }

\* the entries the test suite builds: filled, signed by the organization, hashed and,
\* for a user, signed by the user
make_test_orgentry ==
    generate_hash(sign(set_fields(OrgEntry, OrgFixture).entry,
                       PrivKey("ED25519", 1), "Organization").entry, "BLAKE3-256").entry

make_test_userentry ==
    sign(generate_hash(sign(set_fields(UserEntry, UserFixture).entry,
                            PrivKey("ED25519", 1), "Organization").entry,
                       "BLAKE3-256").entry,
         PrivKey("ED25519", 2), "User").entry

\* <<key, slot>> pairs the caller of chain signs the new entry with: the Organization slot
\* (new primary key for an organization, the organization's key for a user), the User
\* slot (new contact request key), and the Custody slot once more (the previous entry's key)
LinkSignInputs(e) ==
    { <<IF e.type = "Organization" THEN PrivKey("ED25519", Fresh(1)) ELSE PrivKey("ED25519", 1),
        "Organization">>,
      <<PrivKey("ED25519", Fresh(2)), "User">>,
      <<IF e.type = "Organization" THEN PrivKey("ED25519", 1) ELSE PrivKey("ED25519", 3),
        "Custody">> }

LinkIndexInputs == { Txt(<<"3">>) }

\* the entries given to verify_chain as the previous one: the chained entry, the test
\* entry of the other type, a new entry of the same type
PreviousTags == {"prev", "other", "new"}

Previous(tag) ==
    IF tag = "prev" THEN cur
    ELSE IF tag = "new" THEN NewEntry(cur.type)
    ELSE IF cur.type = "Organization" THEN make_test_userentry
    ELSE make_test_orgentry

\* the entries verify_chain is called on: the one chain returned, the one that was chained
SubjectTags == {"new_entry", "entry"}

Subject(who) == IF who = "entry" THEN cur ELSE chained

\* the user test entry with a Name that ends in a blank
SpacedFixture == [UserFixture EXCEPT ![1] = <<"Name", Txt(<<"C", " ">>)>>]

spaced_userentry ==
    sign(generate_hash(sign(set_fields(UserEntry, SpacedFixture).entry,
                            PrivKey("ED25519", 1), "Organization").entry,
                       "BLAKE3-256").entry,
         PrivKey("ED25519", 2), "User").entry

\* what the caller of chain does to the new entry: the Organization signature (by the new
\* primary key for an organization, by the organization's key for a user), prev_hash,
\* the hash and, for a user, the User signature by the new signing key
Complete(new_entry, previous) ==
    LET e1 == sign(new_entry,
                   IF new_entry.type = "Organization" THEN PrivKey("ED25519", Fresh(1))
                   ELSE PrivKey("ED25519", 1),
                   "Organization").entry
        e2 == generate_hash([e1 EXCEPT !.prev_hash = previous.hash], "BLAKE3-256").entry
    IN  IF new_entry.type = "Organization" THEN e2
        ELSE sign(e2, PrivKey("ED25519", Fresh(1)), "User").entry

\* entries appended to a keycard: the test entries and the completed successor of the
\* organization test entry
CardEntries ==
    { make_test_userentry, make_test_orgentry, spaced_userentry,
      Complete(chain(make_test_orgentry, PrivKey("ED25519", 1), TRUE).entry,
               make_test_orgentry) }

\* keys given to Keycard.chain: the contact request signing keys of the test entry and
\* of a chained entry, the organization's signing key, an encryption key
CardChainInputs ==
    { PrivKey("ED25519", 3), PrivKey("ED25519", Fresh(2)), PrivKey("ED25519", 1),
      PrivKey("CURVE25519", 4) }

\* keycard files given to load: one organization entry, one user entry, two user
\* entries, an organization entry and its successor, an organization entry followed by
\* a user entry, one user entry followed by an empty line
CardFiles ==
    { Keycard_save(<<make_test_orgentry>>), Keycard_save(<<make_test_userentry>>),
      Keycard_save(<<make_test_userentry, spaced_userentry>>),
      Keycard_save(<<make_test_orgentry,
                     Complete(chain(make_test_orgentry, PrivKey("ED25519", 1), TRUE).entry,
                              make_test_orgentry)>>),
      Keycard_save(<<make_test_orgentry, make_test_userentry>>),
      Keycard_save(<<make_test_userentry>>) \o << <<"", Empty>> >> }

\* entries given to is_compliant: a test entry with its type kept or blanked, one required
\* field (or none) removed or emptied, the Custody and Organization slots absent, empty
\* or signed, the hash kept or emptied
ComplianceInputs ==
    { [type |-> IF blank THEN "" ELSE e.type,
       fields |-> [f \in IF gone /\ i \in 1..Len(required_fields(e)) THEN (DOMAIN e.fields) \ {required_fields(e)[i]}
                         ELSE DOMAIN e.fields |->
                      IF i \in 1..Len(required_fields(e)) /\ f = required_fields(e)[i] THEN Empty ELSE e.fields[f]],
       signatures |-> [s \in {n \in {"Custody", "Organization", "User"} :
                                \/ n = "Custody" /\ custody # "absent"
                                \/ n = "Organization" /\ org # "absent"
                                \/ n = "User" /\ Has(e.signatures, n)} |->
                          IF s = "Custody"
                          THEN (IF custody = "empty" THEN Empty ELSE SigVal(1, <<>>))
                          ELSE IF s = "Organization" /\ org = "empty" THEN Empty
                          ELSE e.signatures[s]],
       prev_hash |-> e.prev_hash,
       hash |-> IF hashed THEN e.hash ELSE Empty] :
        e \in {make_test_orgentry, make_test_userentry},
        blank \in BOOLEAN, gone \in BOOLEAN, hashed \in BOOLEAN,
        i \in 0..Len(UserRequiredFields),
        custody \in {"absent", "empty", "signed"},
        org \in {"absent", "empty", "signed"} }

\* passphrases of every length up to MaxPassword with every choice of character classes:
\* the first five places hold a character of a class or a blank, the others a blank;
\* and two passphrases of the specification's examples
PasswordInputs ==
    { [i \in 1..n |-> IF i \in classes THEN <<"U+00E9", "1", "P", "a", "!">>[i] ELSE " "] :
          n \in 0..MaxPassword, classes \in SUBSET (1..5) }
    \cup { <<"a", "b", "c">>, <<"P", "a", "s", "s", "w", "o", "r", "d", "1">> }

\* key objects: an encryption pair and a secret key, each generated and each made from
\* given key bytes as the tests make them
KeyInputs ==
    { KeyPair(Empty, Empty, ""),
      KeyPair(PubKey("CURVE25519", 4), PrivKey("CURVE25519", 4), "curve25519"),
      SecretKey(Empty, ""),
      SecretKey(PrivKey("SALSA20", 7), "salsa20") }

\* how many digests are nested in a hash value through its Hash line
RECURSIVE HashDepth(_)
HashDepth(v) ==
    IF v.t # "dig" THEN 0
    ELSE LET inner == {i \in 1..Len(v.d) : v.d[i][1] = "Hash"}
         IN  IF inner = {} THEN 1 ELSE 1 + HashDepth(v.d[CHOOSE i \in inner : TRUE][2])

(***************************************************************************)
(* State machine                                                           *)
(***************************************************************************)
NoArg == [key |-> Empty, slot |-> "", name |-> "", val |-> Empty, algo |-> "", rot |-> FALSE]

\* what the entry held when the call was made: the slots with a signature, and a hash or not
Was(e) ==
    [signed |-> {n \in DOMAIN e.signatures : Truthy(e.signatures[n])}, hashed |-> Truthy(e.hash)]

Rec(op, arg, ret) == [op |-> op, arg |-> arg, ret |-> ret, was |-> Was(cur)]

\* results of chain and of parsing are dropped when the caller goes on with cur;
\* no keycard is touched
NoResults ==
    /\ chained' = EntryBase /\ bundle' = NoBundle /\ parsed' = EntryBase
    /\ UNCHANGED <<link, card, loaded, disk, keyobj, profiles, active_index>>

Init ==
    /\ cur \in {OrgEntry, UserEntry}
    /\ chained = EntryBase
    /\ bundle = NoBundle
    /\ parsed = EntryBase
    /\ edits = 0
    /\ s1 = 0
    /\ link = 0
    /\ card = <<>>
    /\ loaded = <<>>
    /\ disk = NoFile
    /\ keyobj = NoKey
    /\ profiles = <<>>
    /\ active_index = -1
    /\ last = [op |-> "init", arg |-> NoArg, ret |-> OK, was |-> Was(EntryBase)]

SetFields ==
    \E fields \in FieldsInputs(cur) :
        /\ cur' = set_fields(cur, fields).entry
        /\ last' = Rec("set_fields", NoArg, set_fields(cur, fields).ret)
        /\ NoResults
        /\ s1' = 0
        /\ UNCHANGED edits

SetFieldOf(inputs) ==
    \E in \in inputs :
        /\ cur' = set_field(cur, in[1], in[2])
        /\ last' = Rec("set_field", [NoArg EXCEPT !.name = in[1], !.val = in[2]], OK)
        /\ NoResults
        /\ s1' = 0
        /\ UNCHANGED edits

SetField == SetFieldOf(SetFieldInputs)

SetItem ==
    \E in \in SetItemInputs :
        /\ edits < MaxEdits
        /\ edits' = edits + 1
        /\ cur' = setitem(cur, in[1], in[2])
        /\ last' = Rec("setitem", [NoArg EXCEPT !.name = in[1], !.val = in[2]], OK)
        /\ NoResults
        /\ s1' = 0

\* entry.prev_hash = value, as the callers of chain do
SetPrevHash ==
    \E v \in PrevHashInputs :
        /\ edits < MaxEdits
        /\ edits' = edits + 1
        /\ cur' = [cur EXCEPT !.prev_hash = v]
        /\ last' = Rec("prev_hash", [NoArg EXCEPT !.val = v], OK)
        /\ NoResults
        /\ s1' = 0

Set ==
    \E data \in DataInputs :
        /\ edits < MaxEdits
        /\ edits' = edits + 1
        /\ cur' = set(cur, data).entry
        /\ last' = Rec("set", NoArg, set(cur, data).ret)
        /\ NoResults
        /\ s1' = 0

SignOf(inputs) ==
    \E in \in inputs :
        /\ cur' = sign(cur, in[1], in[2]).entry
        /\ last' = Rec("sign", [NoArg EXCEPT !.key = in[1], !.slot = in[2]],
                       sign(cur, in[1], in[2]).ret)
        /\ NoResults
        /\ s1' = IF sign(cur, in[1], in[2]).ret # OK THEN s1
                 ELSE IF in[2] = "Organization" THEN 1
                 ELSE IF in[2] = "User" /\ s1 = 2 THEN 3
                 ELSE 0
        /\ UNCHANGED edits

Sign == SignOf(SignInputs)

GenerateHashOf(first, again) ==
    \E algo \in (IF Truthy(cur.hash) THEN again ELSE first) :
        /\ HashDepth(cur.hash) < MaxHashDepth
        /\ cur' = generate_hash(cur, algo).entry
        /\ last' = Rec("generate_hash", [NoArg EXCEPT !.algo = algo],
                       generate_hash(cur, algo).ret)
        /\ NoResults
        /\ s1' = IF generate_hash(cur, algo).ret # OK THEN s1 ELSE IF s1 = 1 THEN 2 ELSE 0
        /\ UNCHANGED edits

GenerateHash == GenerateHashOf(HashInputs, RehashInputs)

VerifySignature ==
    \E in \in VerifyInputs :
        /\ last' = Rec("verify_signature", [NoArg EXCEPT !.key = in[1], !.slot = in[2]],
                       verify_signature(cur, in[1], in[2]))
        /\ NoResults
        /\ UNCHANGED <<cur, edits, s1>>

IsCompliant ==
    /\ last' = Rec("is_compliant", NoArg, is_compliant(cur))
    /\ NoResults
    /\ UNCHANGED <<cur, edits, s1>>

\* fresh = EntryType(); fresh.set(entry.make_bytestring(-1))
SetFromBytes ==
    /\ parsed' = set(NewEntry(cur.type), make_bytestring(cur, -1)).entry
    /\ last' = Rec("parse", NoArg, set(NewEntry(cur.type), make_bytestring(cur, -1)).ret)
    /\ chained' = EntryBase
    /\ bundle' = NoBundle
    /\ UNCHANGED <<cur, edits, s1, link, card, loaded, disk, keyobj, profiles, active_index>>

\* chaindata = entry.chain(key, rotate_optional)
Chain ==
    \E key \in ChainInputs, rotate_optional \in BOOLEAN :
        /\ last' = Rec("chain", [NoArg EXCEPT !.key = key, !.rot = rotate_optional],
                       chain(cur, key, rotate_optional).ret)
        /\ chained' = chain(cur, key, rotate_optional).entry
        /\ bundle' = chain(cur, key, rotate_optional).out
        /\ parsed' = EntryBase
        /\ link' = IF chain(cur, key, rotate_optional).ret = OK
                      /\ key.k = Get(cur.fields, CustodyKeyField(cur)).k
                   THEN 1 ELSE 0
        /\ cur' = chain_self(cur, key, rotate_optional)
        /\ UNCHANGED <<edits, s1, card, loaded, disk, keyobj, profiles, active_index>>

\* new_entry.sign(key, slot) on the entry chain returned
LinkSign ==
    \E in \in LinkSignInputs(cur) :
        /\ chained.type # ""
        /\ chained' = sign(chained, in[1], in[2]).entry
        /\ last' = Rec("sign", [NoArg EXCEPT !.key = in[1], !.slot = in[2]],
                       sign(chained, in[1], in[2]).ret)
        /\ link' = IF sign(chained, in[1], in[2]).ret # OK THEN link
                   ELSE IF in[2] = "Organization" /\ link = 1 THEN 2
                   ELSE IF in[2] = "User" /\ link = 4 THEN 5
                   ELSE 0
        /\ UNCHANGED <<cur, bundle, parsed, edits, s1, card, loaded, disk, keyobj, profiles, active_index>>

\* new_entry.prev_hash = entry.hash
LinkPrevHash ==
    /\ chained.type # ""
    /\ chained.prev_hash # cur.hash
    /\ chained' = [chained EXCEPT !.prev_hash = cur.hash]
    /\ last' = Rec("prev_hash", [NoArg EXCEPT !.val = cur.hash], OK)
    /\ link' = IF link = 2 THEN 3 ELSE 0
    /\ UNCHANGED <<cur, bundle, parsed, edits, s1, card, loaded, disk, keyobj, profiles, active_index>>

\* new_entry.generate_hash('BLAKE3-256')
LinkHash ==
    /\ chained.type # ""
    /\ ~Truthy(chained.hash)
    /\ chained' = generate_hash(chained, "BLAKE3-256").entry
    /\ last' = Rec("generate_hash", [NoArg EXCEPT !.algo = "BLAKE3-256"],
                   generate_hash(chained, "BLAKE3-256").ret)
    /\ link' = IF link = 3 THEN 4 ELSE 0
    /\ UNCHANGED <<cur, bundle, parsed, edits, s1, card, loaded, disk, keyobj, profiles, active_index>>

\* new_entry['Index'] = value
LinkSetIndex ==
    \E v \in LinkIndexInputs :
        /\ chained.type # ""
        /\ edits < MaxEdits
        /\ edits' = edits + 1
        /\ chained' = setitem(chained, "Index", v)
        /\ last' = Rec("setitem", [NoArg EXCEPT !.name = "Index", !.val = v], OK)
        /\ link' = 0
        /\ cur' = store_seen(cur, chained')
        /\ UNCHANGED <<bundle, parsed, s1, card, loaded, disk, keyobj, profiles, active_index>>

\* new_entry.verify_chain(previous), entry.verify_chain(previous)
VerifyChain ==
    \E who \in SubjectTags, tag \in PreviousTags :
        /\ chained.type # ""
        /\ last' = Rec("verify_chain", [NoArg EXCEPT !.slot = who, !.name = tag],
                       verify_chain(Subject(who), Previous(tag)))
        /\ UNCHANGED <<cur, chained, bundle, parsed, edits, s1, link, card, loaded, disk, keyobj, profiles, active_index>>

\* the life of one entry: filled, edited through set_field, signed, hashed
Next ==
    \/ SetFields
    \/ SetField
    \/ Sign
    \/ GenerateHash
    \/ IsCompliant

Spec == Init /\ [][Next]_vars

\* a signed entry that is written to behind set_field's back, then verified
RoleSign == SignOf(RoleSignInputs)

OneHash == GenerateHashOf(OneHashInput, {})

NextVerify ==
    \/ SetFields
    \/ RoleSign
    \/ OneHash
    \/ SetItem
    \/ SetPrevHash
    \/ Set
    \/ VerifySignature
    \/ IsCompliant

SpecVerify == Init /\ [][NextVerify]_vars

\* an entry that is completed, parsed back and chained
SetIndex == SetFieldOf(IndexInputs \cup LineInputs)

NextChain ==
    \/ SetFields
    \/ SetIndex
    \/ RoleSign
    \/ OneHash
    \/ SetFromBytes
    \/ Chain

SpecChain == Init /\ [][NextChain]_vars

\* a test entry that is chained; the new entry is completed and checked against it
InitLink ==
    /\ cur \in {make_test_orgentry, make_test_userentry}
    /\ chained = EntryBase
    /\ bundle = NoBundle
    /\ parsed = EntryBase
    /\ edits = 0
    /\ s1 = 0
    /\ link = 0
    /\ card = <<>>
    /\ loaded = <<>>
    /\ disk = NoFile
    /\ keyobj = NoKey
    /\ profiles = <<>>
    /\ active_index = -1
    /\ last = [op |-> "init", arg |-> NoArg, ret |-> OK, was |-> Was(EntryBase)]

NextLink ==
    \/ Chain
    \/ LinkSign
    \/ LinkPrevHash
    \/ LinkHash
    \/ LinkSetIndex
    \/ VerifyChain

SpecLink == InitLink /\ [][NextLink]_vars

\* card.entries.append(entry)
CardAppend ==
    \E entry \in CardEntries :
        /\ Len(card) < MaxEntries
        /\ card' = Append(card, entry)
        /\ loaded' = <<>>
        /\ last' = Rec("append", NoArg, OK)
        /\ UNCHANGED <<cur, chained, bundle, parsed, edits, s1, link, disk, keyobj, profiles, active_index>>

\* card.chain(key, rotate_optional)
CardChain ==
    \E key \in CardChainInputs, rotate_optional \in BOOLEAN :
        /\ last.ret.code # "no return"
        /\ Len(card) < MaxEntries
        /\ card' = Keycard_chain(card, key, rotate_optional).entries
        /\ loaded' = <<>>
        /\ last' = Rec("card_chain", [NoArg EXCEPT !.key = key, !.rot = rotate_optional],
                       Keycard_chain(card, key, rotate_optional).ret)
        /\ UNCHANGED <<cur, chained, bundle, parsed, edits, s1, link, disk, keyobj, profiles, active_index>>

\* the caller completes the entry chain appended: card.entries[-1] = new_entry
CardComplete ==
    /\ Len(card) >= 2
    /\ ~Truthy(card[Len(card)].hash)
    /\ card' = [card EXCEPT ![Len(card)] = Complete(card[Len(card)], card[Len(card) - 1])]
    /\ loaded' = <<>>
    /\ last' = Rec("complete", NoArg, OK)
    /\ UNCHANGED <<cur, chained, bundle, parsed, edits, s1, link, disk, keyobj, profiles, active_index>>

\* card.verify()
CardVerify ==
    /\ last' = Rec("verify", NoArg, Keycard_verify(card))
    /\ loaded' = <<>>
    /\ UNCHANGED <<cur, chained, bundle, parsed, edits, s1, link, card, disk, keyobj, profiles, active_index>>

\* card.save(path, True); newcard = Keycard(); newcard.load(path)
CardSaveLoad ==
    /\ loaded' = Keycard_load(Keycard_save(card)).entries
    /\ last' = Rec("load", NoArg, Keycard_load(Keycard_save(card)).ret)
    /\ UNCHANGED <<cur, chained, bundle, parsed, edits, s1, link, card, disk, keyobj, profiles, active_index>>

\* an empty keycard that is filled, chained, verified, saved and loaded
InitCard ==
    /\ cur = EntryBase
    /\ chained = EntryBase
    /\ bundle = NoBundle
    /\ parsed = EntryBase
    /\ edits = 0
    /\ s1 = 0
    /\ link = 0
    /\ card = <<>>
    /\ loaded = <<>>
    /\ disk = NoFile
    /\ keyobj = NoKey
    /\ profiles = <<>>
    /\ active_index = -1
    /\ last = [op |-> "init", arg |-> NoArg, ret |-> OK, was |-> Was(EntryBase)]

NextCard ==
    \/ CardAppend
    \/ CardChain
    \/ CardComplete
    \/ CardVerify
    \/ CardSaveLoad

SpecCard == InitCard /\ [][NextCard]_vars

\* card.load(path) on the keycard as it is: the entries read are appended to self.entries.
\* A call that does not return ends the run of the caller.
CardLoad ==
    \E file \in CardFiles :
        /\ last.ret.code # "no return"
        /\ Len(card) + Len(Keycard_load(file).entries) <= MaxEntries
        /\ card' = card \o Keycard_load(file).entries
        /\ loaded' = <<>>
        /\ last' = Rec("card_load", NoArg, Keycard_load(file).ret)
        /\ UNCHANGED <<cur, chained, bundle, parsed, edits, s1, link, disk, keyobj, profiles, active_index>>

\* one Keycard object that is only loaded into and chained
NextLoad ==
    \/ CardLoad
    \/ CardChain

SpecLoad == InitCard /\ [][NextLoad]_vars

\* entry.save(path, clobber)
EntrySave ==
    \E path \in {"", "path"}, clobber \in BOOLEAN :
        /\ last.ret.code # "no return"
        /\ disk' = EntryBase_save(cur, path, clobber, disk).file
        /\ last' = Rec("entry_save", [NoArg EXCEPT !.name = path, !.rot = clobber],
                       EntryBase_save(cur, path, clobber, disk).ret)
        /\ UNCHANGED <<cur, chained, bundle, parsed, edits, s1, link, card, loaded, keyobj, profiles, active_index>>

\* card.save(path, clobber)
CardSave ==
    \E path \in {"", "path"}, clobber \in BOOLEAN :
        /\ last.ret.code # "no return"
        /\ disk' = Keycard_save_to(card, path, clobber, disk).file
        /\ last' = Rec("card_save", [NoArg EXCEPT !.name = path, !.rot = clobber],
                       Keycard_save_to(card, path, clobber, disk).ret)
        /\ UNCHANGED <<cur, chained, bundle, parsed, edits, s1, link, card, loaded, keyobj, profiles, active_index>>

\* KeyPair('', public, private, 'curve25519').save(path)
KeySave ==
    \E path \in {"", "path"} :
        /\ last.ret.code # "no return"
        /\ disk' = KeyPair_save([enc_type |-> "curve25519", public |-> PubKey("CURVE25519", 4),
                                 private |-> PrivKey("CURVE25519", 4)], path, disk).file
        /\ last' = Rec("key_save", [NoArg EXCEPT !.name = path],
                       KeyPair_save([enc_type |-> "curve25519", public |-> PubKey("CURVE25519", 4),
                                     private |-> PrivKey("CURVE25519", 4)], path, disk).ret)
        /\ UNCHANGED <<cur, chained, bundle, parsed, edits, s1, link, card, loaded, keyobj, profiles, active_index>>

\* a test entry, a keycard that is loaded into, and a key pair, all saved to one path
InitSave ==
    /\ cur \in {make_test_orgentry, make_test_userentry}
    /\ chained = EntryBase
    /\ bundle = NoBundle
    /\ parsed = EntryBase
    /\ edits = 0
    /\ s1 = 0
    /\ link = 0
    /\ card = <<>>
    /\ loaded = <<>>
    /\ disk = NoFile
    /\ keyobj = NoKey
    /\ profiles = <<>>
    /\ active_index = -1
    /\ last = [op |-> "init", arg |-> NoArg, ret |-> OK, was |-> Was(EntryBase)]

NextSave ==
    \/ EntrySave
    \/ CardSave
    \/ KeySave
    \/ CardLoad

SpecSave == InitSave /\ [][NextSave]_vars

\* is_compliant applied to entries of every kind
InitCompliant ==
    /\ cur \in ComplianceInputs
    /\ chained = EntryBase
    /\ bundle = NoBundle
    /\ parsed = EntryBase
    /\ edits = 0
    /\ s1 = 0
    /\ link = 0
    /\ card = <<>>
    /\ loaded = <<>>
    /\ disk = NoFile
    /\ keyobj = NoKey
    /\ profiles = <<>>
    /\ active_index = -1
    /\ last = [op |-> "init", arg |-> NoArg, ret |-> OK, was |-> Was(EntryBase)]

SpecCompliant == InitCompliant /\ [][IsCompliant]_vars

\* check_password_complexity(text)
CheckPassword ==
    \E indata \in PasswordInputs :
        /\ last' = Rec("check_password_complexity", [NoArg EXCEPT !.val = Txt(indata)],
                       check_password_complexity(indata))
        /\ UNCHANGED <<cur, chained, bundle, parsed, edits, s1, link, card, loaded, disk, keyobj, profiles, active_index>>

SpecPassword == Init /\ [][CheckPassword]_vars

\* keyobj = KeyPair(...) or SecretKey(...)
KeyNew ==
    \E k \in KeyInputs :
        /\ keyobj' = k
        /\ last' = Rec("key_new", NoArg, OK)
        /\ UNCHANGED <<cur, chained, bundle, parsed, edits, s1, link, card, loaded, disk, profiles, active_index>>

\* keyobj.save(path)
ObjSave ==
    \E path \in {"", "path"} :
        LET status == IF keyobj.class = "KeyPair" THEN KeyPair_save(keyobj, path, disk)
                      ELSE SecretKey_save(keyobj, path, disk)
        IN  /\ keyobj # NoKey
            /\ disk' = status.file
            /\ last' = Rec("obj_save", [NoArg EXCEPT !.name = path], status.ret)
            /\ UNCHANGED <<cur, chained, bundle, parsed, edits, s1, link, card, loaded, keyobj, profiles, active_index>>

\* status = load_encryptionpair(path) or load_secretkey(path); the caller keeps the object
\* of a successful load
ObjLoad ==
    \E path \in {"", "path"}, kind \in {"encryptionpair", "secretkey"} :
        LET status == IF kind = "encryptionpair" THEN load_encryptionpair(path, disk)
                      ELSE load_secretkey(path, disk)
        IN  /\ keyobj' = IF status.ret = OK THEN status.obj ELSE keyobj
            /\ last' = Rec("obj_load", [NoArg EXCEPT !.name = path, !.slot = kind], status.ret)
            /\ UNCHANGED <<cur, chained, bundle, parsed, edits, s1, link, card, loaded, disk, profiles, active_index>>

NextKeys ==
    \/ KeyNew
    \/ ObjSave
    \/ ObjLoad

SpecKeys == InitSave /\ [][NextKeys]_vars

(***************************************************************************)
(* userprofile.ProfileManager                                              *)
(***************************************************************************)
\* a name or a path is the sequence of its characters
UpperLetters ==
    <<"A", "B", "C", "D", "E", "F", "G", "H", "I", "J", "K", "L", "M",
      "N", "O", "P", "Q", "R", "S", "T", "U", "V", "W", "X", "Y", "Z">>

LowerLetters ==
    <<"a", "b", "c", "d", "e", "f", "g", "h", "i", "j", "k", "l", "m",
      "n", "o", "p", "q", "r", "s", "t", "u", "v", "w", "x", "y", "z">>

\* str.casefold on ASCII text
casefold(name) ==
    [i \in 1..Len(name) |->
        IF \E j \in 1..26 : UpperLetters[j] = name[i]
        THEN LowerLetters[CHOOSE j \in 1..26 : UpperLetters[j] = name[i]]
        ELSE name[i]]

\* position of the last '/' of a path, 0 when it has none
LastSlash(path) ==
    IF \E i \in 1..Len(path) : path[i] = "/"
    THEN CHOOSE i \in 1..Len(path) : path[i] = "/" /\ \A j \in (i + 1)..Len(path) : path[j] # "/"
    ELSE 0

\* os.path.basename
basename(path) == SubSeq(path, LastSlash(path) + 1, Len(path))

\* pathlib.Path(path).parent of a path with a directory part
parent(path) == SubSeq(path, 1, LastSlash(path) - 1)

\* os.path.join of a directory and a relative or absolute name
join(folder, name) ==
    IF name # <<>> /\ name[1] = "/" THEN name ELSE folder \o <<"/">> \o name

profile_folder == <<"p", "f">>

primary == <<"p", "r", "i", "m", "a", "r", "y">>

secondary == <<"s", "e", "c", "o", "n", "d", "a", "r", "y">>

\* Profile(path) after make_id: the name is the last component of the path
Profile(path, id) == [name |-> basename(path), path |-> path, isdefault |-> FALSE, id |-> id]

\* uuid.uuid4(): an id no profile of the list has
make_id(plist) == CHOOSE n \in 1..(Len(plist) + 1) : \A i \in 1..Len(plist) : plist[i].id # n

\* ProfileManager.__index_for_profile, counted from 0; -1 when there is none
index_for_profile(plist, name) ==
    IF name = <<>> THEN -1
    ELSE IF \E i \in 1..Len(plist) : casefold(name) = plist[i].name
    THEN (CHOOSE i \in 1..Len(plist) :
              /\ casefold(name) = plist[i].name
              /\ \A j \in 1..(i - 1) : casefold(name) # plist[j].name) - 1
    ELSE -1

\* ProfileManager.save_profiles where the profile list file can be written
save_profiles(plist) ==
    IF \E i \in 1..Len(plist) : plist[i].name = <<>>
    THEN RetVal("InvalidProfile", "")
    ELSE OK

\* ProfileManager.create_profile
create_profile(plist, name) ==
    IF name = <<>>
    THEN [profiles |-> plist, ret |-> RetVal("BadParameterValue", "BUG: name may not be empty")]
    ELSE IF index_for_profile(plist, casefold(name)) >= 0
    THEN [profiles |-> plist, ret |-> RetVal("ResourceExists", "name")]
    ELSE LET profile == Profile(join(profile_folder, casefold(name)), make_id(plist))
             added == Append(plist, IF Len(plist) = 0
                                    THEN [profile EXCEPT !.isdefault = TRUE]
                                    ELSE profile)
         IN  [profiles |-> added, ret |-> save_profiles(added)]

\* the list without the item at index, counted from 0: list.pop(index)
Pop(plist, index) == SubSeq(plist, 1, index) \o SubSeq(plist, index + 2, Len(plist))

\* ProfileManager.delete_profile where the folder of the profile can be removed
delete_profile(plist, name) ==
    IF name = <<"d", "e", "f", "a", "u", "l", "t">>
    THEN [profiles |-> plist, ret |-> RetVal("BadParameterValue", "'default' is reserved")]
    ELSE IF name = <<>>
    THEN [profiles |-> plist, ret |-> RetVal("BadParameterValue", "BUG: name may not be empty")]
    ELSE IF index_for_profile(plist, casefold(name)) < 0
    THEN [profiles |-> plist, ret |-> RetVal("ResourceNotFound", "name doesn't exist")]
    ELSE LET itemindex == index_for_profile(plist, casefold(name))
             profile == plist[itemindex + 1]
             popped == Pop(plist, itemindex)
             left == IF profile.isdefault /\ Len(popped) > 0
                     THEN [popped EXCEPT ![1].isdefault = TRUE]
                     ELSE popped
         IN  [profiles |-> left, ret |-> save_profiles(left)]

\* ProfileManager.rename_profile; renamed says whether os.rename succeeds
rename_profile(plist, oldname, newname, renamed) ==
    IF oldname = <<>> \/ newname = <<>>
    THEN [profiles |-> plist, ret |-> RetVal("BadParameterValue", "BUG: name may not be empty")]
    ELSE IF casefold(oldname) = casefold(newname)
    THEN [profiles |-> plist, ret |-> OK]
    ELSE IF index_for_profile(plist, casefold(oldname)) < 0
    THEN [profiles |-> plist, ret |-> RetVal("ResourceNotFound", "oldname doesn't exist")]
    ELSE IF index_for_profile(plist, casefold(newname)) >= 0
    THEN [profiles |-> plist, ret |-> RetVal("ResourceExists", "newname already exists")]
    ELSE IF ~renamed
    THEN [profiles |-> plist, ret |-> RetVal("ExceptionThrown", "")]
    ELSE LET index == index_for_profile(plist, casefold(oldname))
             newpath == parent(plist[index + 1].path) \o <<"/">> \o casefold(newname)
             moved == [plist EXCEPT ![index + 1].name = casefold(newname),
                                    ![index + 1].path = newpath]
         IN  [profiles |-> moved, ret |-> save_profiles(moved)]

\* the index of the last profile that has isdefault set, counted from 0; -1 when none has
LastDefault(plist) ==
    IF \E i \in 1..Len(plist) : plist[i].isdefault
    THEN (CHOOSE i \in 1..Len(plist) :
              plist[i].isdefault /\ \A j \in (i + 1)..Len(plist) : ~plist[j].isdefault) - 1
    ELSE -1

\* ProfileManager.get_default_profile
get_default_profile(plist) ==
    IF \E i \in 1..Len(plist) : plist[i].isdefault
    THEN plist[CHOOSE i \in 1..Len(plist) :
                   plist[i].isdefault /\ \A j \in 1..(i - 1) : ~plist[j].isdefault].name
    ELSE <<>>

\* ProfileManager.set_default_profile
set_default_profile(plist, name) ==
    IF name = <<>>
    THEN [profiles |-> plist, ret |-> RetVal("BadParameterValue", "BUG: name may not be empty")]
    ELSE IF Len(plist) = 1
    THEN (IF plist[1].isdefault THEN [profiles |-> plist, ret |-> OK]
          ELSE [profiles |-> [plist EXCEPT ![1].isdefault = TRUE],
                ret |-> save_profiles([plist EXCEPT ![1].isdefault = TRUE])])
    ELSE LET oldindex == LastDefault(plist)
             newindex == index_for_profile(plist, casefold(name))
         IN  IF newindex < 0
             THEN [profiles |-> plist, ret |-> RetVal("ResourceNotFound", "New profile not found")]
             ELSE IF oldindex >= 0 /\ casefold(name) = plist[oldindex + 1].name
             THEN [profiles |-> plist, ret |-> OK]
             ELSE LET cleared == IF oldindex >= 0
                                 THEN [plist EXCEPT ![oldindex + 1].isdefault = FALSE]
                                 ELSE plist
                      marked == [cleared EXCEPT ![newindex + 1].isdefault = TRUE]
                  IN  [profiles |-> marked, ret |-> save_profiles(marked)]

\* ProfileManager.activate_profile; self.profiles[self.active_index] raises IndexError
\* when the index is beyond the list
activate_profile(plist, active, name) ==
    IF active >= Len(plist)
    THEN [active_index |-> active, ret |-> RetVal("raise IndexError", "list index out of range")]
    ELSE IF name = <<>>
    THEN [active_index |-> -1, ret |-> RetVal("BadParameterValue", "BUG: name may not be empty")]
    ELSE IF index_for_profile(plist, casefold(name)) < 0
    THEN [active_index |-> -1, ret |-> RetVal("ResourceNotFound", "name doesn't exist")]
    ELSE [active_index |-> index_for_profile(plist, casefold(name)), ret |-> OK]

\* ProfileManager(profile_path) on a folder without a profile list
ProfileManager_init ==
    LET created == create_profile(<<>>, primary).profiles
        marked == set_default_profile(created, primary).profiles
    IN  [profiles |-> marked,
         active_index |-> activate_profile(marked, -1, get_default_profile(marked)).active_index]

\* number of profiles a manager is given
MaxProfiles == 2

\* the names the calls are made with
ProfileNames ==
    { <<>>, primary, <<"P">> \o Tail(primary), secondary, <<"x", "/">> \o primary }

\* the names delete_profile is called with
DeleteNames == ProfileNames \cup { <<"d", "e", "f", "a", "u", "l", "t">> }

\* the new names rename_profile is called with: names without a directory part
RenameNames == { name \in ProfileNames : LastSlash(name) = 0 }

InitProfiles ==
    /\ cur = EntryBase
    /\ chained = EntryBase
    /\ bundle = NoBundle
    /\ parsed = EntryBase
    /\ edits = 0
    /\ s1 = 0
    /\ link = 0
    /\ card = <<>>
    /\ loaded = <<>>
    /\ disk = NoFile
    /\ keyobj = NoKey
    /\ profiles = ProfileManager_init.profiles
    /\ active_index = ProfileManager_init.active_index
    /\ last = Rec("init", NoArg, OK)

NoCard == <<cur, chained, bundle, parsed, edits, s1, link, card, loaded, disk, keyobj>>

\* pman.create_profile(name)
CreateProfile ==
    \E name \in ProfileNames :
        /\ Len(profiles) < MaxProfiles
        /\ last.ret.code # "raise IndexError"
        /\ profiles' = create_profile(profiles, name).profiles
        /\ last' = Rec("create_profile", [NoArg EXCEPT !.val = Txt(name)],
                       create_profile(profiles, name).ret)
        /\ UNCHANGED active_index
        /\ UNCHANGED NoCard

\* pman.delete_profile(name)
DeleteProfile ==
    \E name \in DeleteNames :
        /\ last.ret.code # "raise IndexError"
        /\ profiles' = delete_profile(profiles, name).profiles
        /\ last' = Rec("delete_profile", [NoArg EXCEPT !.val = Txt(name)],
                       delete_profile(profiles, name).ret)
        /\ UNCHANGED active_index
        /\ UNCHANGED NoCard

\* pman.rename_profile(oldname, newname)
RenameProfile ==
    \E oldname \in ProfileNames, newname \in RenameNames, renamed \in BOOLEAN :
        /\ last.ret.code # "raise IndexError"
        /\ profiles' = rename_profile(profiles, oldname, newname, renamed).profiles
        /\ last' = Rec("rename_profile",
                       [NoArg EXCEPT !.val = Txt(oldname), !.key = Txt(newname)],
                       rename_profile(profiles, oldname, newname, renamed).ret)
        /\ UNCHANGED active_index
        /\ UNCHANGED NoCard

\* pman.set_default_profile(name)
SetDefaultProfile ==
    \E name \in ProfileNames :
        /\ last.ret.code # "raise IndexError"
        /\ profiles' = set_default_profile(profiles, name).profiles
        /\ last' = Rec("set_default_profile", [NoArg EXCEPT !.val = Txt(name)],
                       set_default_profile(profiles, name).ret)
        /\ UNCHANGED active_index
        /\ UNCHANGED NoCard

\* pman.activate_profile(name); the caller of a call that raises goes no further
ActivateProfile ==
    \E name \in ProfileNames :
        /\ last.ret.code # "raise IndexError"
        /\ active_index' = activate_profile(profiles, active_index, name).active_index
        /\ last' = Rec("activate_profile", [NoArg EXCEPT !.val = Txt(name)],
                       activate_profile(profiles, active_index, name).ret)
        /\ UNCHANGED profiles
        /\ UNCHANGED NoCard

NextProfiles ==
    \/ CreateProfile
    \/ DeleteProfile
    \/ RenameProfile
    \/ SetDefaultProfile
    \/ ActivateProfile

SpecProfiles == InitProfiles /\ [][NextProfiles]_vars

(***************************************************************************)
(* Properties                                                              *)
(***************************************************************************)
\* the value of the line called name in canonical bytes, '' when there is no such line
LineValue(data, name) ==
    IF \E i \in 1..Len(data) : data[i][1] = name
    THEN data[CHOOSE i \in 1..Len(data) : data[i][1] = name][2]
    ELSE Empty

LineNames(data) == {data[i][1] : i \in 1..Len(data)}

\* the positions, counted from 1, of the slots listed after the slot called sigtype
SlotsAfter(e, sigtype) == (IndexOf(sig_names(e), sigtype) + 2)..Len(sig_names(e))

\* the positions, counted from 1, of the slots listed before the slot called sigtype
SlotsBefore(e, sigtype) == 1..IndexOf(sig_names(e), sigtype)

\* data says of the type, of every declared field and of every slot listed before
\* sigtype what the entry e holds now, and says nothing else
Covers(data, e, sigtype) ==
    /\ LineValue(data, "Type") = TypeVal(e.type)
    /\ \A i \in 1..Len(field_names(e)) :
          LineValue(data, field_names(e)[i]) = Get(e.fields, field_names(e)[i])
    /\ \A j \in SlotsBefore(e, sigtype) :
          IF signature_info(e)[j].type = SIGINFO_HASH
          THEN /\ LineValue(data, "Previous-Hash") = e.prev_hash
               /\ LineValue(data, "Hash") = e.hash
          ELSE LineValue(data, sig_names(e)[j] \o "-Signature") = Get(e.signatures, sig_names(e)[j])
    /\ LineNames(data) \subseteq
          {"Type"} \cup {field_names(e)[i] : i \in 1..Len(field_names(e))}
          \cup UNION {IF signature_info(e)[j].type = SIGINFO_HASH
                      THEN {"Previous-Hash", "Hash"}
                      ELSE {sig_names(e)[j] \o "-Signature"} : j \in SlotsBefore(e, sigtype)}

\* the latest call was verify_signature with a usable key on a slot that stores a signature
VerifiedStored ==
    /\ last.op = "verify_signature"
    /\ last.arg.key.t = "pub" /\ last.arg.key.p = "ED25519" /\ last.arg.key.k # 0
    /\ InSeq(last.arg.slot, sig_names(cur))
    /\ Has(cur.signatures, last.arg.slot)
    /\ cur.signatures[last.arg.slot].t = "sig"

\* C1: after any call of set_field, whatever the entry held before (nothing, some
\* signatures, all signatures and a hash), its signatures map is empty and its hash is ''.
C1_SetFieldClears ==
    last.op = "set_field" => (DOMAIN cur.signatures = {} /\ cur.hash = Empty)

\* set_field was called on an entry that was signed by the organization and the user and hashed
C1_Witness ==
    /\ last.op = "set_field"
    /\ last.was.hashed
    /\ {"Organization", "User"} \subseteq last.was.signed
    /\ cur.signatures = EmptyDict
    /\ cur.hash = Empty

C6_SignClearsLater ==
    (last.op = "sign" /\ last.ret = OK) =>
        \A j \in SlotsAfter(cur, last.arg.slot) :
            IF signature_info(cur)[j].type = SIGINFO_HASH
            THEN cur.hash = Empty
            ELSE Get(cur.signatures, sig_names(cur)[j]) = Empty

\* C7: generate_hash(algo) called twice in a row on an entry, with nothing between the
\* two calls, stores the same hash both times.
C7_HashTwice ==
    [][(/\ last.op = "generate_hash" /\ last.ret = OK
        /\ last'.op = "generate_hash" /\ last'.ret = OK
        /\ last'.arg.algo = last.arg.algo) => cur'.hash = cur.hash]_vars

\* C8: generate_hash(algo) succeeds for BLAKE3-256, BLAKE2B-256, SHA-256 and SHA3-256 and
\* stores '<algo>:<digest>'; for any other tag it returns UnsupportedHashType and the
\* hash is what it was.
C8_HashTags ==
    [][last'.op = "generate_hash" =>
          IF last'.arg.algo \in {"BLAKE3-256", "BLAKE2B-256", "SHA-256", "SHA3-256"}
          THEN /\ last'.ret = OK
               /\ cur'.hash.t = "dig"
               /\ cur'.hash.p = last'.arg.algo
          ELSE /\ last'.ret.code = "UnsupportedHashType"
               /\ cur'.hash = cur.hash]_vars

\* C3: verify_signature(vk, slot) succeeds whenever the Custody, Organization or User slot
\* holds the signature sign made with the key pair of vk and the type, the declared fields
\* and everything listed before the slot are what that signature was made over; and a user
\* entry with all required fields that went through sign(Organization), generate_hash,
\* sign(User) is compliant and its Organization and User signatures verify.
C3_VerifyAfterSign ==
    /\ (/\ VerifiedStored
        /\ last.arg.slot \in {"Custody", "Organization", "User"}
        /\ cur.signatures[last.arg.slot].k = last.arg.key.k
        /\ Covers(cur.signatures[last.arg.slot].d, cur, last.arg.slot)) => last.ret = OK
    /\ (s1 = 3 /\ cur.type = "User" /\ FirstMissingField(cur, 1) = "") =>
          /\ is_compliant(cur) = OK
          /\ verify_signature(cur, PubKey("ED25519", 1), "Organization") = OK
          /\ verify_signature(cur, PubKey("ED25519", 2), "User") = OK

\* the User signature of a complete user entry verified after sign(Organization),
\* generate_hash, sign(User)
C3_Witness ==
    /\ last.op = "verify_signature" /\ last.ret = OK
    /\ last.arg.slot = "User"
    /\ s1 = 3
    /\ FirstMissingField(cur, 1) = ""
    /\ Truthy(cur.hash)

\* C4: verify_signature(vk, slot) succeeds only if the stored signature of the slot was
\* made by the key pair of vk over what the entry holds now before that slot; so while a
\* signature is stored, a declared field whose value is not the one signed makes
\* verify_signature return InvalidKeycard.
C4_VerifySound ==
    /\ (last.op = "verify_signature" /\ last.ret = OK) =>
          /\ VerifiedStored
          /\ cur.signatures[last.arg.slot].k = last.arg.key.k
          /\ Covers(cur.signatures[last.arg.slot].d, cur, last.arg.slot)
    /\ (/\ VerifiedStored
        /\ \E i \in 1..Len(field_names(cur)) :
              LineValue(cur.signatures[last.arg.slot].d, field_names(cur)[i])
                  # Get(cur.fields, field_names(cur)[i])) => last.ret.code = "InvalidKeycard"

\* Name was written after the slot was signed, and the signer's own key no longer verifies it
C4_Witness ==
    /\ VerifiedStored
    /\ last.ret.code = "InvalidKeycard"
    /\ cur.signatures[last.arg.slot].k = last.arg.key.k
    /\ Get(cur.fields, "Name") = Txt(<<"Z">>)
    /\ LineValue(cur.signatures[last.arg.slot].d, "Name") \notin {Empty, Txt(<<"Z">>)}

\* the type, the declared fields and the slots up to and including sigtype are the same in
\* the entries e1 and e2
SameThrough(e1, e2, sigtype) ==
    /\ e1.type = e2.type
    /\ \A i \in 1..Len(field_names(e1)) :
          /\ Has(e1.fields, field_names(e1)[i]) = Has(e2.fields, field_names(e1)[i])
          /\ Get(e1.fields, field_names(e1)[i]) = Get(e2.fields, field_names(e1)[i])
    /\ \A j \in 1..(IndexOf(sig_names(e1), sigtype) + 1) :
          IF signature_info(e1)[j].type = SIGINFO_HASH
          THEN e1.prev_hash = e2.prev_hash /\ e1.hash = e2.hash
          ELSE /\ Has(e1.signatures, sig_names(e1)[j]) = Has(e2.signatures, sig_names(e1)[j])
               /\ Get(e1.signatures, sig_names(e1)[j]) = Get(e2.signatures, sig_names(e1)[j])

\* the stored User signature was made over another prev_hash, hash or earlier signature
\* than the entry holds now
UserSignatureOutdated ==
    LET data == cur.signatures["User"].d
    IN  \/ LineValue(data, "Previous-Hash") # cur.prev_hash
        \/ LineValue(data, "Hash") # cur.hash
        \/ \E j \in SlotsBefore(cur, "User") :
              /\ signature_info(cur)[j].type = SIGINFO_SIGNATURE
              /\ LineValue(data, sig_names(cur)[j] \o "-Signature")
                    # Get(cur.signatures, sig_names(cur)[j])

C9_RoundTrip ==
    (last.op = "parse" /\ is_compliant(cur) = OK) =>
        /\ last.ret = OK
        /\ \A i \in 1..Len(field_names(cur)) :
              Get(parsed.fields, field_names(cur)[i]) = Get(cur.fields, field_names(cur)[i])
        /\ \A j \in 1..Len(sig_names(cur)) :
              Get(parsed.signatures, sig_names(cur)[j]) = Get(cur.signatures, sig_names(cur)[j])
        /\ parsed.prev_hash = cur.prev_hash
        /\ parsed.hash = cur.hash
        /\ ~Has(parsed.fields, "Previous-Hash")
        /\ ~Has(parsed.fields, "Hash")

\* C10: for both entry types and either value of rotate_optional, when chain succeeds the
\* Index of the returned entry is the decimal text of the Index of the chained entry plus 1.
C10_ChainIndex ==
    (last.op = "chain" /\ last.ret = OK) =>
        /\ chained.type = cur.type
        /\ Has(chained.fields, "Index")
        /\ <<cur.fields["Index"].s, chained.fields["Index"].s>> \in
              { <<<<"1">>, <<"2">>>>, <<<<"9">>, <<"1", "0">>>>, <<<<"-", "1">>, <<"0">>>> }

\* an organization entry with Index 9 was chained with rotate_optional: the new Index is 10
C10_Witness ==
    /\ last.op = "chain" /\ last.ret = OK
    /\ last.arg.rot
    /\ cur.type = "Organization"
    /\ cur.fields["Index"] = Txt(<<"9">>)
    /\ chained.fields["Index"] = Txt(<<"1", "0">>)

\* C11: when chain succeeds, the prev_hash of the returned entry is the hash of the entry
\* that was chained.
C11_ChainPrevHash ==
    (last.op = "chain" /\ last.ret = OK) => chained.prev_hash = cur.hash

\* C12: when OrgEntry.chain succeeds, the Primary-Verification-Key of the new entry is the
\* bundle's sign.public and its Encryption-Key is the bundle's encrypt.public.
C12_OrgChainKeys ==
    (last.op = "chain" /\ last.ret = OK /\ cur.type = "Organization") =>
        /\ Get(chained.fields, "Primary-Verification-Key") = bundle["sign.public"]
        /\ Get(chained.fields, "Encryption-Key") = bundle["encrypt.public"]

\* C13: when OrgEntry.chain succeeds, the Secondary-Verification-Key of the new entry is
\* the bundle's altsign.public: a new key when rotate_optional is true, the chained entry's
\* Primary-Verification-Key when it is false.
C13_OrgChainSecondary ==
    (last.op = "chain" /\ last.ret = OK /\ cur.type = "Organization") =>
        /\ Get(chained.fields, "Secondary-Verification-Key") = bundle["altsign.public"]
        /\ last.arg.rot =>
              bundle["altsign.public"] \notin {cur.fields[n] : n \in DOMAIN cur.fields}
        /\ ~last.arg.rot => bundle["altsign.public"] = cur.fields["Primary-Verification-Key"]

\* C14: when UserEntry.chain succeeds, the new entry's Contact-Request-Verification-Key and
\* Contact-Request-Encryption-Key are the bundle's crsign.public and crencrypt.public; with
\* rotate_optional its Public-Encryption-Key and Alternate-Encryption-Key are the bundle's
\* encrypt.public and altencrypt.public, without it they are as in the chained entry.
C14_UserChainKeys ==
    (last.op = "chain" /\ last.ret = OK /\ cur.type = "User") =>
        /\ bundle["crsign.public"].t = "pub" /\ bundle["crencrypt.public"].t = "pub"
        /\ Get(chained.fields, "Contact-Request-Verification-Key") = bundle["crsign.public"]
        /\ Get(chained.fields, "Contact-Request-Encryption-Key") = bundle["crencrypt.public"]
        /\ last.arg.rot =>
              /\ bundle["encrypt.public"].t = "pub" /\ bundle["altencrypt.public"].t = "pub"
              /\ Get(chained.fields, "Public-Encryption-Key") = bundle["encrypt.public"]
              /\ Get(chained.fields, "Alternate-Encryption-Key") = bundle["altencrypt.public"]
        /\ ~last.arg.rot =>
              \A n \in {"Public-Encryption-Key", "Alternate-Encryption-Key"} :
                  /\ Has(chained.fields, n) = Has(cur.fields, n)
                  /\ Get(chained.fields, n) = Get(cur.fields, n)

\* a user entry was chained with rotate_optional: all four key fields hold keys that are
\* not in the chained entry
C14_Witness ==
    /\ last.op = "chain" /\ last.ret = OK /\ cur.type = "User"
    /\ last.arg.rot
    /\ \A n \in {"Contact-Request-Verification-Key", "Contact-Request-Encryption-Key",
                 "Public-Encryption-Key", "Alternate-Encryption-Key"} :
          /\ chained.fields[n].t = "pub"
          /\ chained.fields[n] \notin {cur.fields[m] : m \in DOMAIN cur.fields}

\* C15: after chain succeeds with the signing key of the chained entry's
\* Primary-Verification-Key (organization) or Contact-Request-Verification-Key (user),
\* verify_chain of the new entry against the chained one succeeds, and it still does after
\* each step of sign(Organization), prev_hash, generate_hash and, for a user, sign(User).
C15_ChainVerifies ==
    link >= 1 => verify_chain(chained, cur) = OK

\* verify_chain succeeded on a new user entry completed through sign(User)
C15_Witness ==
    /\ last.op = "verify_chain" /\ last.ret = OK
    /\ last.arg.slot = "new_entry" /\ last.arg.name = "prev"
    /\ cur.type = "User"
    /\ link = 5
    /\ chained.prev_hash = cur.hash
    /\ is_compliant(chained) = OK

\* C16: for both entry types verify_chain fails when the entry's Index is not the previous
\* Index plus 1, also when its Custody signature is valid for its content under the
\* previous entry's key; for an organization entry with a Custody signature the failure is
\* InvalidKeycard, 'entry index compliance failure'.
C16_ChainIndexGap ==
    (/\ last.op = "verify_chain"
     /\ last.arg.slot = "new_entry" /\ last.arg.name = "prev"
     /\ IsIntText(Get(chained.fields, "Index")) /\ IsIntText(Get(cur.fields, "Index"))
     /\ ParseInt(chained.fields["Index"].s) # ParseInt(cur.fields["Index"].s) + 1) =>
        /\ last.ret # OK
        /\ (chained.type = "Organization" /\ Truthy(Get(chained.signatures, "Custody"))) =>
              last.ret = RetVal("InvalidKeycard", "entry index compliance failure")

\* what a call returns as an error: not success, and not an exception
ReturnsError(ret) == ret.code # "" /\ ret.code \notin {"raise KeyError", "raise AttributeError"}

\* C17: verify_chain returns an error when the previous entry is of the other type, when
\* the entry has no non-empty Custody signature, or when the previous entry lacks the key
\* (Primary-Verification-Key, Contact-Request-Verification-Key); when it succeeds the
\* Custody signature is one by that key of the previous entry over the entry as it is.
C17_ChainVerifyErrors ==
    last.op = "verify_chain" =>
        LET e == Subject(last.arg.slot)
            previous == Previous(last.arg.name)
        IN  /\ (\/ previous.type # e.type
                \/ ~Truthy(Get(e.signatures, "Custody"))
                \/ ~Truthy(Get(previous.fields, CustodyKeyField(e)))) => ReturnsError(last.ret)
            /\ last.ret = OK =>
                  /\ e.signatures["Custody"].t = "sig"
                  /\ previous.fields[CustodyKeyField(e)].t = "pub"
                  /\ e.signatures["Custody"].k = previous.fields[CustodyKeyField(e)].k
                  /\ Covers(e.signatures["Custody"].d, e, "Custody")

\* verify_chain was called on a user entry that has no Custody signature, against an
\* entry of its type that holds the key, and returned an error
C17_Witness ==
    /\ last.op = "verify_chain"
    /\ last.arg.slot = "entry" /\ last.arg.name = "prev"
    /\ cur.type = "User"
    /\ ~Has(cur.signatures, "Custody")
    /\ last.ret.code = "ResourceNotFound"

\* C18: Keycard.chain with a valid ED25519 key on a keycard whose last entry is compliant
\* succeeds and appends exactly one entry, whose Index is the last Index plus 1, for an
\* organization keycard as for a user keycard.
C18_CardChain ==
    [][(/\ last'.op = "card_chain"
        /\ Len(card) >= 1
        /\ is_compliant(card[Len(card)]) = OK
        /\ is_valid(last'.arg.key) /\ last'.arg.key.p = "ED25519") =>
           /\ last'.ret = OK
           /\ Len(card') = Len(card) + 1
           /\ SubSeq(card', 1, Len(card)) = card
           /\ IsIntText(Get(card'[Len(card')].fields, "Index"))
           /\ IsIntText(Get(card[Len(card)].fields, "Index"))
           /\ ParseInt(card'[Len(card')].fields["Index"].s)
                 = ParseInt(card[Len(card)].fields["Index"].s) + 1]_vars

\* the pairs of consecutive entries whose verify_chain fails
FailingPairs(entries) ==
    {i \in 1..(Len(entries) - 1) : verify_chain(entries[i + 1], entries[i]) # OK}

\* C19: Keycard.verify returns ResourceNotFound on an empty keycard and success on a
\* keycard of one entry; on a longer one it succeeds if and only if verify_chain succeeds
\* on every pair of consecutive entries, and otherwise returns the error of the first
\* failing pair.
C19_CardVerify ==
    last.op = "verify" =>
        /\ Len(card) = 0 => last.ret.code = "ResourceNotFound"
        /\ Len(card) = 1 => last.ret = OK
        /\ Len(card) >= 2 =>
              /\ last.ret = OK <=> FailingPairs(card) = {}
              /\ FailingPairs(card) # {} =>
                    LET first == CHOOSE i \in FailingPairs(card) :
                                     \A j \in FailingPairs(card) : i <= j
                    IN  last.ret = verify_chain(card[first + 1], card[first])

\* verify was called on three entries of which the first two are linked and the last
\* two are not
C19_Witness ==
    /\ last.op = "verify"
    /\ Len(card) = 3
    /\ FailingPairs(card) = {2}
    /\ last.ret # OK

\* C20: a keycard of compliant entries (here: all of one type), saved and loaded into an
\* empty keycard, gives as many entries of the same types in the same order, and verify
\* returns on the loaded keycard what it returns on the saved one.
C20_SaveLoad ==
    (/\ last.op = "load"
     /\ \A i \in 1..Len(card) : is_compliant(card[i]) = OK /\ card[i].type = card[1].type) =>
        /\ Len(loaded) = Len(card)
        /\ \A i \in 1..Len(card) : loaded[i].type = card[i].type
        /\ Keycard_verify(loaded) = Keycard_verify(card)

\* C21: Keycard.load of a file in which an entry's Type line differs from the Type of an
\* earlier entry of the file returns BadData.
C21_LoadMixedTypes ==
    (/\ last.op = "load"
     /\ \E i \in 1..Len(card) : card[i].type # card[1].type) => last.ret.code = "BadData"

\* the file of an organization entry followed by a user entry was loaded
C21_Witness ==
    /\ last.op = "load"
    /\ Len(card) = 2
    /\ card[1].type = "Organization" /\ card[2].type = "User"
    /\ last.ret = RetVal("BadData", "entry type does not match keycard")
    /\ Len(loaded) = 1

\* C22: after any sequence of load and chain on one Keycard object that started empty,
\* all entries of the keycard have the same type.
C22_OneType ==
    \A i \in 1..Len(card) : card[i].type = card[1].type

Compliant(e) ==
    /\ e.type \in {"Organization", "User"}
    /\ \A i \in 1..Len(required_fields(e)) : Truthy(Get(e.fields, required_fields(e)[i]))
    /\ \A i \in 1..Len(signature_info(e)) :
          LET info == signature_info(e)[i]
          IN  IF info.type = SIGINFO_HASH THEN Truthy(e.hash)
              ELSE IF info.optional
              THEN ~Has(e.signatures, info.name) \/ Truthy(e.signatures[info.name])
              ELSE Truthy(Get(e.signatures, info.name))

\* C24: is_compliant succeeds if and only if the type is Organization or User, every
\* required field is present and non-empty, every non-optional slot holds a signature, the
\* hash is non-empty and the optional Custody slot is absent or non-empty; otherwise it
\* returns UnsupportedKeycardType, RequiredFieldMissing or SignatureMissing, whichever
\* violation comes first in that order.
C24_Compliance ==
    last.op = "is_compliant" =>
        /\ last.ret = OK <=> Compliant(cur)
        /\ ~Compliant(cur) =>
              last.ret.code =
                  IF cur.type \notin {"Organization", "User"} THEN "UnsupportedKeycardType"
                  ELSE IF \E i \in 1..Len(required_fields(cur)) :
                              ~Truthy(Get(cur.fields, required_fields(cur)[i]))
                  THEN "RequiredFieldMissing"
                  ELSE "SignatureMissing"

\* is_compliant was called on an entry that is complete but for a Custody slot that is
\* present and empty
C24_Witness ==
    /\ last.op = "is_compliant"
    /\ last.ret = RetVal("SignatureMissing", "Custody-Signature")
    /\ Has(cur.signatures, "Custody")
    /\ Compliant([cur EXCEPT !.signatures = [s \in (DOMAIN cur.signatures) \ {"Custody"} |->
                                                 cur.signatures[s]]])

\* C25: when set_field is called on an entry that holds every signature that is not
\* optional and a hash, and is_compliant is the next call, then, the required fields being
\* non-empty, is_compliant returns SignatureMissing for the Organization slot, the first
\* slot of signature_info that is not optional, and not for the hash or a later slot.
C25_EditThenCompliance ==
    [][(/\ last.op = "set_field"
        /\ last.was.hashed
        /\ \A i \in 1..Len(signature_info(cur)) :
              (signature_info(cur)[i].type = SIGINFO_SIGNATURE /\ ~signature_info(cur)[i].optional)
                  => signature_info(cur)[i].name \in last.was.signed
        /\ FirstMissingField(cur, 1) = ""
        /\ last'.op = "is_compliant")
       => last'.ret = RetVal("SignatureMissing", "Organization-Signature")]_vars

\* set_field has just been called on a user entry that was compliant, signed by the
\* organization and the user and hashed, and is_compliant, called now, reports the
\* Organization slot
C25_Witness ==
    /\ last.op = "set_field"
    /\ cur.type = "User"
    /\ last.was.hashed
    /\ {"Organization", "User"} \subseteq last.was.signed
    /\ FirstMissingField(cur, 1) = ""
    /\ ENABLED IsCompliant
    /\ is_compliant(cur) = RetVal("SignatureMissing", "Organization-Signature")

\* the line names of an entry in the order the format gives them: Type, the declared
\* fields, then one name per signature slot and two for the hash entry
RECURSIVE SlotOrder(_, _)
SlotOrder(e, i) ==
    IF i > Len(signature_info(e)) THEN <<>>
    ELSE (IF signature_info(e)[i].type = SIGINFO_HASH THEN <<"Previous-Hash", "Hash">>
          ELSE <<signature_info(e)[i].name \o "-Signature">>)
         \o SlotOrder(e, i + 1)

LineOrder(e) == <<"Type">> \o field_names(e) \o SlotOrder(e, 1)

\* the lines an entry's content calls for when the slots are cut off after the first n
ContentLines(e, n) ==
    {<<"Type", TypeVal(e.type)>> : x \in {y \in {1} : e.type # ""}}
    \cup {<<f, e.fields[f]>> : f \in {g \in DOMAIN e.fields :
                                         InSeq(g, field_names(e)) /\ Truthy(e.fields[g])}}
    \cup {<<signature_info(e)[i].name \o "-Signature", e.signatures[signature_info(e)[i].name]>> :
              i \in {j \in 1..n : /\ signature_info(e)[j].type = SIGINFO_SIGNATURE
                                  /\ Truthy(Get(e.signatures, signature_info(e)[j].name))}}
    \cup {<<"Previous-Hash", e.prev_hash>> :
              i \in {j \in 1..n : signature_info(e)[j].type = SIGINFO_HASH /\ Truthy(e.prev_hash)}}
    \cup {<<"Hash", e.hash>> :
              i \in {j \in 1..n : signature_info(e)[j].type = SIGINFO_HASH /\ Truthy(e.hash)}}

\* C26: the bytes of an entry are a function of its type, field values, signatures,
\* prev_hash and hash alone: for every cut-off, the lines are exactly the Type line, the
\* declared fields that are non-empty and the filled slots up to the cut-off, each once, the
\* Type line first, the fields in field_names order and the slots in signature_info order,
\* whatever calls and whatever order of calls stored that content.
C26_Canonical ==
    \A level \in (0 - 1)..(Len(signature_info(cur)) + 1) :
        LET data == make_bytestring(cur, level)
            n == IF level < 0 \/ level > Len(signature_info(cur))
                 THEN Len(signature_info(cur)) ELSE level
            order == LineOrder(cur)
        IN  /\ {data[i] : i \in 1..Len(data)} = ContentLines(cur, n)
            /\ \A i \in 1..Len(data) : InSeq(data[i][1], order)
            /\ \A i \in 1..(Len(data) - 1) :
                  IndexOf(order, data[i][1]) < IndexOf(order, data[i + 1][1])

\* a user entry that holds a field the type does not declare, the optional Name, both
\* signatures and a hash: its bytes run from the Type line to the User-Signature line
\* and leave the undeclared field out
C26_Witness ==
    /\ cur.type = "User"
    /\ Has(cur.fields, "Nickname")
    /\ Truthy(Get(cur.fields, "Name"))
    /\ Truthy(cur.hash)
    /\ Truthy(Get(cur.signatures, "User"))
    /\ make_bytestring(cur, 0 - 1)[1][1] = "Type"
    /\ make_bytestring(cur, 0 - 1)[Len(make_bytestring(cur, 0 - 1))][1] = "User-Signature"
    /\ Len(make_bytestring(cur, 0 - 1)) > Len(make_bytestring(cur, 2))
    /\ \A i \in 1..Len(make_bytestring(cur, 0 - 1)) : make_bytestring(cur, 0 - 1)[i][1] # "Nickname"

\* C27: no field of the entry, and no field of an entry parsed from bytes, holds a value
\* with a carriage return or a line feed in it; parsing bytes in which a line holds a line
\* feed returns BadData.
C27_NoLineBreaks ==
    /\ \A e \in {cur, parsed} : \A f \in DOMAIN e.fields :
          ~InSeq("\n", e.fields[f].s) /\ ~InSeq("\r", e.fields[f].s)
    /\ (last.op = "parse" /\ \E f \in DOMAIN cur.fields : InSeq("\n", cur.fields[f].s))
          => last.ret.code = "BadData"

\* C28: a call of set_field, set_fields, set or an item assignment that changes the value
\* of a field leaves the entry without any signature and without a hash that it held
\* before the call.
C28_EditsInvalidate ==
    [][(/\ last'.op \in {"set_field", "set_fields", "set", "setitem"}
        /\ cur'.fields # cur.fields)
       => /\ \A n \in DOMAIN cur'.signatures :
                Truthy(cur'.signatures[n]) => Get(cur.signatures, n) # cur'.signatures[n]
          /\ Truthy(cur'.hash) => cur'.hash # cur.hash]_vars

\* C29: verify_signature with a valid ED25519 key and a slot of signature_info returns
\* NotCompliant when the slot is present and empty, and returns an error code, without
\* raising, when the signatures map has no such slot.
C29_VerifyReturns ==
    (/\ last.op = "verify_signature"
     /\ is_valid(last.arg.key)
     /\ last.arg.key.p = "ED25519"
     /\ InSeq(last.arg.slot, sig_names(cur)))
    => /\ (Has(cur.signatures, last.arg.slot) /\ ~Truthy(cur.signatures[last.arg.slot]))
              => last.ret.code = "NotCompliant"
       /\ ~Has(cur.signatures, last.arg.slot) => ReturnsError(last.ret)

C31_LoadReturns ==
    last.op \in {"card_load", "load"} => last.ret.code # "no return"

C33_KeyRoundTrip ==
    [][(/\ last.op = "obj_save" /\ last.ret = OK
        /\ last'.op = "obj_load" /\ last'.arg.name = last.arg.name
        /\ last'.arg.slot = (IF keyobj.class = "KeyPair" THEN "encryptionpair" ELSE "secretkey"))
       => /\ last'.ret = OK
          /\ keyobj'.class = keyobj.class
          /\ keyobj'.type = keyobj.type
          /\ keyobj'.enc_type = keyobj.enc_type
          /\ IF keyobj.class = "KeyPair"
             THEN /\ b85encode(keyobj'.public) = b85encode(keyobj.public)
                  /\ b85encode(keyobj'.private) = b85encode(keyobj.private)
             ELSE b85encode(keyobj'.key) = b85encode(keyobj.key)]_vars

C36_ChainKeepsPrev ==
    [][/\ last'.op = "chain" => cur' = cur
       /\ (last'.op = "setitem" /\ chained.type # "") => cur' = cur]_vars

\* an entry was chained and the Index of the new entry was then set to another value
C36_Witness ==
    /\ last.op = "setitem"
    /\ chained.type # ""
    /\ Truthy(Get(chained.signatures, "Custody"))
    /\ chained.fields["Index"] = Txt(<<"3">>)
    /\ cur.fields["Index"] = Txt(<<"1">>)

\* C35: a Keycard.chain that returns an error leaves the list of entries of the keycard as
\* it was before the call, in length and in content.
C35_ChainErrorKeepsEntries ==
    [][(last'.op = "card_chain" /\ last'.ret # OK) => card' = card]_vars

\* Keycard.chain failed on a keycard that has entries, while signing the new entry
C35_Witness ==
    /\ last.op = "card_chain"
    /\ last.ret # OK
    /\ last.arg.key.p = "ED25519"
    /\ Len(card) >= 1
    /\ is_compliant(card[Len(card)]) = OK

\* C37: a Keycard.load that returns an error leaves the list of entries of the keycard as
\* it was before the call.
C37_LoadErrorKeepsEntries ==
    [][(/\ last'.op = "card_load"
        /\ last'.ret # OK
        /\ last'.ret.code # "no return") => card' = card]_vars

\* C38: in a ProfileManager that holds profiles exactly one of them has isdefault set, and
\* no two of its profiles have the same case-folded name.
C38_OneDefaultNoDuplicate ==
    /\ profiles # <<>> => Cardinality({i \in 1..Len(profiles) : profiles[i].isdefault}) = 1
    /\ \A i, j \in 1..Len(profiles) :
          casefold(profiles[i].name) = casefold(profiles[j].name) => i = j

\* C39: in a ProfileManager active_index is -1 or the index of a profile of the list, and
\* a call other than activate_profile leaves it on the profile it was on.
C39_ActiveIndex ==
    [][/\ active_index' = -1 \/ active_index' \in 0..(Len(profiles') - 1)
       /\ (/\ last'.op # "activate_profile"
           /\ active_index \in 0..(Len(profiles) - 1)
           /\ active_index' \in 0..(Len(profiles') - 1))
             => profiles'[active_index' + 1].id = profiles[active_index + 1].id]_vars

====
